---------------------------- MODULE Spec2Model ----------------------------
(***************************************************************************)
(* Multi-instance bot lifecycle manager of Minecraft-Bot-Joiner:           *)
(*   - the username allocator (generateRandomUsername / releaseUsername),  *)
(*   - MinecraftBotService (one bot instance: start, stop, session event   *)
(*     handlers, reconnect policy, wander / chat behaviours),              *)
(*   - the route layer (botServices registry, start / stop handlers with   *)
(*     their await points, the event listeners and the WebSocket           *)
(*     broadcaster).                                                       *)
(* The mineflayer session, the timers of the JavaScript runtime and the    *)
(* WebSocket clients are the environment.                                  *)
(***************************************************************************)
EXTENDS Integers, Sequences, FiniteSets, TLC

(***************************************************************************)
(* Bounds of the model.                                                    *)
(***************************************************************************)
MaxInst == 2        \* MinecraftBotService objects constructed
MaxSess == 3        \* mineflayer bots created
MaxShared == 2      \* ... in the specification with overlapping requests
MaxWatched == 1     \* ... in the specification with WebSocket clients
MaxAttempts == 2    \* largest maxReconnectAttempts of a stored config
MaxTimers == 1      \* timers of one kind an instance has lost track of
MaxPending == 3     \* log listeners waiting on the storage
MaxAlloc == 3       \* calls of the name generator without a release
MaxLogs == 3        \* log entries in the store
MaxClock == 2       \* milliseconds the clock advances
MaxMsgs == 5        \* messages in flight to one WebSocket client

Inst == 1..MaxInst
Req == 1..2
Client == 1..2
StoredIds == {1}

(***************************************************************************)
(* Username allocator: the vocabulary tables of the name generator.        *)
(***************************************************************************)
firstNames ==
  << "Alex", "Steve", "Luna", "Max", "Emma", "Jake", "Zoe", "Noah", "Lily", "Sam",
     "Kai", "Maya", "Leo", "Aria", "Finn", "Nora", "Cole", "Ruby", "Jack", "Ivy",
     "Owen", "Mia", "Liam", "Eva", "Luke", "Sky", "Ryan", "Sage", "Dean", "Rose",
     "Blake", "Jade", "Gray", "Belle", "Cruz", "Wren", "Knox", "Faye", "Jude", "Vale" >>

suffixes ==
  << "Gaming", "Pro", "Master", "Craft", "Build", "Mine", "Player", "Hero",
     "2024", "99", "101", "X", "Z", "MC", "YT", "TTV", "Live", "Stream",
     "Builder", "Miner", "Crafter", "Legend", "King", "Queen", "Boss", "Elite",
     "Gamer", "Noob", "Newbie", "Rookie", "Veteran", "Expert", "Ninja", "Wizard" >>

adjectives ==
  << "Cool", "Epic", "Awesome", "Super", "Mega", "Ultra", "Shadow", "Dark",
     "Light", "Fire", "Ice", "Storm", "Thunder", "Swift", "Silent", "Wild",
     "Brave", "Bold", "Lucky", "Smart", "Quick", "Strong", "Mystic", "Golden",
     "Silver", "Diamond", "Emerald", "Ruby", "Crystal", "Neon", "Cyber", "Digital" >>

decorations == << "_", "X", "Z" >>

maxAttempts == 100
maxNameLength == 16

\* The outcomes of Math.random() the model draws in one pass of the loop
\* body: the template (nameType), the 1-based indices into the tables or
\* the numeric suffix, and the decoration (0: none, else its 1-based index).
Draws ==
  { [ type |-> "suffix",    first |-> 31, second |-> 31,   decoration |-> 0 ],
    [ type |-> "adjective", first |-> 31, second |-> 3,    decoration |-> 0 ],
    [ type |-> "number",    first |-> 31, second |-> 9999, decoration |-> 1 ] }

\* ... and for the number of the fallback
RandFallback == {0, 99998}

\* the username built by one pass of the loop body (lines 92-115)
BuildName(d) ==
  LET base == CASE d.type = "suffix" -> firstNames[d.first] \o suffixes[d.second]
                [] d.type = "adjective" -> adjectives[d.second] \o firstNames[d.first]
                [] OTHER -> firstNames[d.first] \o ToString(d.second)
  IN  IF d.decoration = 0 THEN base ELSE base \o decorations[d.decoration]

Candidates == { BuildName(d) : d \in Draws }

\* the fallback of line 127
Fallbacks == { "Player" \o ToString(n) : n \in RandFallback }

Names == Candidates \cup Fallbacks

\* line 118: the candidate is returned
Accepted(username, used) == Len(username) <= maxNameLength /\ username \notin used

\* generateRandomUsername(): the set of names a call can return when `used'
\* is the in-use set.  Every iteration of the loop draws afresh: the call
\* returns an accepted draw of one of its maxAttempts iterations (every draw
\* before it was rejected), and it reaches the fallback when maxAttempts
\* draws in a row were rejected, which some sequence of draws does as soon
\* as one candidate is rejected.  The fallback is added and returned
\* without a look at the in-use set.
generateRandomUsername(used) ==
  LET accepted == { c \in Candidates : Accepted(c, used) }
      rejected == Candidates \ accepted
  IN  (IF maxAttempts > 0 THEN accepted ELSE {})
      \cup (IF maxAttempts = 0 \/ rejected # {} THEN Fallbacks ELSE {})

\* releaseUsername(username)
releaseUsername(used, username) == used \ {username}


(***************************************************************************)
(* State.                                                                  *)
(***************************************************************************)
VARIABLES
  botConfigs,        \* MemStorage.botConfigs: stored id -> BotConfig
  botServices,       \* registry: id -> instance (0: no entry)
  nInst,             \* number of MinecraftBotService objects constructed
  inst,              \* the fields of every MinecraftBotService object
  sessions,          \* every mineflayer bot ever created, in creation order
  usedNames,         \* the in-use set of the name generator
  req,               \* the HTTP request handlers and their await points
  clientState,       \* WebSocket clients: "absent", "open" or "closing"
  connectedClients,  \* the clients in the Set connectedClients, in insertion order
  pendingLogs,       \* log listeners waiting on storage.createLogEntry
  received,          \* per client: the events of instances sent to it ...
  expected,          \* per client: the events instances emitted while it was open,
                     \*   ... both in order and without their common prefix
  stopped,           \* the instances on which stop() has completed
  returned,          \* the names generateRandomUsername returned since the last release
  logs,              \* MemStorage.logs: the stored entries in insertion order
  currentLogId,      \* MemStorage.currentLogId
  now,               \* the clock new Date() reads, in milliseconds
  lastRead,          \* the limit and the result of the last getLogEntries()
  lastAct,           \* the step taken last
  lastEmit           \* the events the instances emitted in that step

vars == << botConfigs, botServices, nInst, inst, sessions, usedNames, req,
           clientState, connectedClients, pendingLogs, received, expected, stopped,
           returned, logs, currentLogId, now, lastRead, lastAct, lastEmit >>

\* the log store of MemStorage and what reads it
logVars == << logs, currentLogId, now, lastRead >>

(***************************************************************************)
(* BotConfig records and the events of a MinecraftBotService.              *)
(***************************************************************************)
\* MemStorage constructor: the default bot config (AI flags and reconnect
\* policy vary over the initial states)
defaultUsername == "MinecraftBot_01"
defaultReconnectInterval == 30

BotConfig(auto, max, wander, chat, random) ==
  [ id |-> 1, username |-> defaultUsername,
    autoReconnect |-> auto, reconnectInterval |-> defaultReconnectInterval,
    maxReconnectAttempts |-> max,
    wanderEnabled |-> wander, chatEnabled |-> chat, useRandomNames |-> random,
    isActive |-> FALSE ]

LogEv(i, level, message) ==
  [ type |-> "log", inst |-> i, level |-> level, message |-> message ]
StatusEv(i, status) ==
  [ type |-> "status_update", inst |-> i, status |-> status ]
ErrorEv(i) ==
  [ type |-> "error", inst |-> i ]

\* field initialisers and constructor of MinecraftBotService
NewService(config, botId) ==
  [ config |-> config,
    botId |-> botId,              \* the id the listeners of the instance tag its events with
    bot |-> 0,                    \* index into sessions, 0 is null
    reconnectAttempts |-> 0,
    startTime |-> 0,              \* 0 is null, else the stamp of the start
    reconnectTimeout |-> "null",  \* "null", or the handle of a "pending" / "fired" timer
    wanderInterval |-> "null",    \* "null" or the handle of a "running" interval
    chatInterval |-> "null",
    actualUsername |-> "",
    isWandering |-> FALSE,
    \* timers of the runtime that no field refers to any more
    lostReconnect |-> 0,          \* pending reconnect timeouts
    lostWander |-> 0,             \* running wander intervals
    lostChat |-> 0,               \* running chat intervals
    forwardTimers |-> 0,          \* pending 2 s timeouts of performWander
    wanderTimers |-> 0 ]          \* pending 8 s timeouts of performWander

\* a mineflayer bot: "connecting" -> "loggedin" -> "spawned" while the
\* connection is up, "failed" once an error or a kick broke it, "closed"
\* once it ended or quit() closed it
Live(s) == s.phase \in {"connecting", "loggedin", "spawned"}

\* The part of the state the methods of an instance work on, and the events
\* they emit, in order.
World ==
  [ inst |-> inst, sessions |-> sessions, usedNames |-> usedNames, out |-> << >> ]

emit(w, ev) == [w EXCEPT !.out = Append(@, ev)]

isConnected_spawned(w, i) ==
  w.inst[i].bot # 0 /\ w.sessions[w.inst[i].bot].phase = "spawned"

\* isConnected()
isConnected(w, i) == w.inst[i].bot # 0

getStatus_attempts(w, i) ==
  LET b == w.inst[i] IN
  [ id |-> b.config.id,
    connected |-> b.bot # 0,
    username |-> IF b.actualUsername # "" THEN b.actualUsername ELSE b.config.username,
    uptimeSince |-> b.startTime,
    reconnectCount |-> IF b.bot # 0 THEN 0 ELSE b.reconnectAttempts,
    wandering |-> b.isWandering,
    serverInfo |-> b.bot # 0 /\ w.sessions[b.bot].phase \in {"loggedin", "spawned"} ]

\* getStatus()
getStatus(w, i) ==
  LET b == w.inst[i] IN
  [ id |-> b.config.id,
    connected |-> b.bot # 0,
    username |-> IF b.actualUsername # "" THEN b.actualUsername ELSE b.config.username,
    uptimeSince |-> b.startTime,
    reconnectCount |-> b.reconnectAttempts,
    wandering |-> b.isWandering,
    serverInfo |-> b.bot # 0 /\ w.sessions[b.bot].phase \in {"loggedin", "spawned"} ]

\* start(): `name' is the outcome of generateRandomUsername() when random
\* names are enabled, `throws' tells whether mineflayer.createBot throws
start_silent(w, i, name, throws) ==
  IF w.inst[i].bot # 0
    THEN emit(w, LogEv(i, "warn", "Bot is already running"))
    ELSE
      LET cfg == w.inst[i].config
          actual == IF cfg.useRandomNames THEN name ELSE cfg.username
          w1 == [w EXCEPT !.inst[i].actualUsername = actual,
                          !.usedNames = IF cfg.useRandomNames THEN @ \cup {name} ELSE @]
          w2 == emit(emit(w1, LogEv(i, "info", "Starting bot with username: " \o actual)),
                     LogEv(i, "info", "Connecting to server"))
          s == Len(w.sessions) + 1
      IN  IF throws
            THEN w2
            ELSE [w2 EXCEPT
                   !.sessions = Append(@, [ inst |-> i, username |-> actual,
                                            phase |-> "connecting", listeners |-> TRUE ]),
                   !.inst[i].bot = s,
                   !.inst[i].startTime = s]

start(w, i, name, throws) ==
  IF w.inst[i].bot # 0
    THEN emit(w, LogEv(i, "warn", "Bot is already running"))
    ELSE
      LET cfg == w.inst[i].config
          actual == IF cfg.useRandomNames THEN name ELSE cfg.username
          w1 == [w EXCEPT !.inst[i].actualUsername = actual,
                          !.usedNames = IF cfg.useRandomNames THEN @ \cup {name} ELSE @]
          w2 == emit(emit(w1, LogEv(i, "info", "Starting bot with username: " \o actual)),
                     LogEv(i, "info", "Connecting to server"))
          s == Len(w.sessions) + 1
      IN  IF throws
            THEN emit(emit(w2, LogEv(i, "error", "Failed to create bot")), ErrorEv(i))
            ELSE [w2 EXCEPT
                   !.sessions = Append(@, [ inst |-> i, username |-> actual,
                                            phase |-> "connecting", listeners |-> TRUE ]),
                   !.inst[i].bot = s,
                   !.inst[i].startTime = s]

\* the names start() can get from the generator
NameDraws(w, i) ==
  IF w.inst[i].bot = 0 /\ w.inst[i].config.useRandomNames
    THEN generateRandomUsername(w.usedNames)
    ELSE {""}

\* stop(), lines 194-206: clearTimeout / clearInterval on the three handles
clearTimers_behaviours(w, i) ==
  [w EXCEPT !.inst[i].wanderInterval = "null",
            !.inst[i].chatInterval = "null"]

clearTimers(w, i) ==
  [w EXCEPT !.inst[i].reconnectTimeout = "null",
            !.inst[i].wanderInterval = "null",
            !.inst[i].chatInterval = "null"]

\* stop(): `quitThrows' tells whether bot.quit() throws
stop_abort(w, i, quitThrows) ==
  LET b == w.inst[i]
      w1 == clearTimers(w, i)
      w1a == emit(w1, LogEv(i, "info", "Stopping bot..."))
      w1b == [w1a EXCEPT !.sessions[b.bot].listeners = FALSE]
      w2 == IF b.bot = 0 THEN w1
            ELSE [w1a EXCEPT !.sessions[b.bot].listeners = FALSE,
                             !.sessions[b.bot].phase = "closed",
                             !.inst[i].bot = 0]
      w3 == IF b.config.useRandomNames /\ b.actualUsername # ""
              THEN [w2 EXCEPT !.usedNames = releaseUsername(@, b.actualUsername)]
              ELSE w2
      w4 == [w3 EXCEPT !.inst[i].startTime = 0,
                       !.inst[i].reconnectAttempts = 0,
                       !.inst[i].isWandering = FALSE,
                       !.inst[i].actualUsername = ""]
  IN  IF b.bot # 0 /\ quitThrows
        THEN emit(w1b, LogEv(i, "warn", "Error during bot shutdown"))
        ELSE emit(w4, StatusEv(i, getStatus(w4, i)))

stop(w, i, quitThrows) ==
  LET b == w.inst[i]
      w1 == clearTimers(w, i)
      w2 == IF b.bot = 0 THEN w1
            ELSE LET w1a == emit(w1, LogEv(i, "info", "Stopping bot..."))
                     w1b == [w1a EXCEPT
                               !.sessions[b.bot].listeners = FALSE,
                               !.sessions[b.bot].phase = IF quitThrows THEN @ ELSE "closed"]
                     w1c == IF quitThrows
                              THEN emit(w1b, LogEv(i, "warn", "Error during bot shutdown"))
                              ELSE w1b
                 IN  [w1c EXCEPT !.inst[i].bot = 0]
      w3 == IF b.config.useRandomNames /\ b.actualUsername # ""
              THEN [w2 EXCEPT !.usedNames = releaseUsername(@, b.actualUsername)]
              ELSE w2
      w4 == [w3 EXCEPT !.inst[i].startTime = 0,
                       !.inst[i].reconnectAttempts = 0,
                       !.inst[i].isWandering = FALSE,
                       !.inst[i].actualUsername = ""]
  IN  emit(w4, StatusEv(i, getStatus(w4, i)))

removeAllListeners_keep(w, i) ==
  IF w.inst[i].bot = 0 THEN w ELSE [w EXCEPT !.inst[i].bot = 0]

\* handleDisconnection(), lines 299-306: the listeners of the session are
\* removed and the handle is dropped
removeAllListeners(w, i) ==
  IF w.inst[i].bot = 0 THEN w
  ELSE [w EXCEPT !.sessions[w.inst[i].bot].listeners = FALSE, !.inst[i].bot = 0]

AttemptMessage_before(n, max) == "Attempt " \o ToString(n - 1) \o "/" \o ToString(max)

\* the message of the reconnect log (line 314)
AttemptMessage(n, max) == "Attempt " \o ToString(n) \o "/" \o ToString(max)
ExhaustedMessage == "Max reconnection attempts reached. Bot stopped."

mayReconnect_always(b) == b.reconnectAttempts < b.config.maxReconnectAttempts

\* the condition under which handleDisconnection() schedules a reconnect
mayReconnect(b) ==
  b.config.autoReconnect /\ b.reconnectAttempts < b.config.maxReconnectAttempts

handleDisconnection_inclusive(w, i) ==
  LET b == w.inst[i]
      w1 == removeAllListeners(w, i)
      w2 == emit(w1, StatusEv(i, getStatus(w1, i)))
  IN  IF b.config.autoReconnect /\ b.reconnectAttempts <= b.config.maxReconnectAttempts
        THEN LET n == b.reconnectAttempts + 1
                 w3 == emit([w2 EXCEPT !.inst[i].reconnectAttempts = n],
                            LogEv(i, "info", AttemptMessage(n, b.config.maxReconnectAttempts)))
             IN  [w3 EXCEPT !.inst[i].reconnectTimeout = "pending",
                            !.inst[i].lostReconnect =
                               IF b.reconnectTimeout = "pending" THEN @ + 1 ELSE @]
        ELSE IF b.reconnectAttempts >= b.config.maxReconnectAttempts
          THEN [emit(w2, LogEv(i, "error", ExhaustedMessage))
                  EXCEPT !.inst[i].reconnectAttempts = 0]
          ELSE w2

\* handleDisconnection()
handleDisconnection(w, i) ==
  LET b == w.inst[i]
      w1 == removeAllListeners(w, i)
      w2 == emit(w1, StatusEv(i, getStatus(w1, i)))
  IN  IF mayReconnect(b)
        THEN LET n == b.reconnectAttempts + 1
                 w3 == emit([w2 EXCEPT !.inst[i].reconnectAttempts = n],
                            LogEv(i, "info", AttemptMessage(n, b.config.maxReconnectAttempts)))
             IN  [w3 EXCEPT !.inst[i].reconnectTimeout = "pending",
                            !.inst[i].lostReconnect =
                               IF b.reconnectTimeout = "pending" THEN @ + 1 ELSE @]
        ELSE IF b.reconnectAttempts >= b.config.maxReconnectAttempts
          THEN [emit(w2, LogEv(i, "error", ExhaustedMessage))
                  EXCEPT !.inst[i].reconnectAttempts = 0]
          ELSE w2

\* startAIBehaviors()
startAIBehaviors(w, i) ==
  LET b == w.inst[i]
      w1 == IF b.config.wanderEnabled
              THEN emit([w EXCEPT !.inst[i].wanderInterval = "running",
                                  !.inst[i].lostWander =
                                     IF b.wanderInterval = "running" THEN @ + 1 ELSE @],
                        LogEv(i, "info", "AI wandering enabled"))
              ELSE w
      w2 == IF b.config.chatEnabled
              THEN emit([w1 EXCEPT !.inst[i].chatInterval = "running",
                                   !.inst[i].lostChat =
                                      IF b.chatInterval = "running" THEN @ + 1 ELSE @],
                        LogEv(i, "info", "AI chat enabled"))
              ELSE w1
  IN  IF b.bot = 0 THEN w ELSE w2

\* the handlers setupBotEvents() attaches to the mineflayer bot
onLogin(w, i) ==
  LET w1 == emit(w, LogEv(i, "info", "Bot logged in"))
      w2 == [w1 EXCEPT !.inst[i].reconnectAttempts = 0]
  IN  emit(w2, StatusEv(i, getStatus(w2, i)))

onSpawn(w, i) ==
  LET w1 == emit(w, LogEv(i, "info", "Bot spawned in the world"))
      w2 == emit(w1, StatusEv(i, getStatus(w1, i)))
  IN  startAIBehaviors(w2, i)

ErrorCodes == {"ECONNRESET", "ENOTFOUND", "ECONNREFUSED", "ETIMEDOUT", "OTHER"}

ErrorMessage(code) ==
  CASE code = "ECONNRESET" -> "Connection reset by server"
    [] code = "ENOTFOUND" -> "Server not found"
    [] code = "ECONNREFUSED" -> "Connection refused"
    [] code = "ETIMEDOUT" -> "Connection timed out"
    [] OTHER -> "Bot error"

onError_fatal(w, i, code) ==
  LET w1 == emit(emit(w, LogEv(i, "error", ErrorMessage(code))), ErrorEv(i))
  IN  IF code = "ENOTFOUND" THEN [w1 EXCEPT !.inst[i].bot = 0] ELSE handleDisconnection(w1, i)

onError(w, i, code) ==
  handleDisconnection(emit(emit(w, LogEv(i, "error", ErrorMessage(code))), ErrorEv(i)), i)

onKicked(w, i) ==
  handleDisconnection(emit(w, LogEv(i, "warn", "Bot was kicked")), i)

onEnd(w, i) ==
  handleDisconnection(emit(w, LogEv(i, "info", "Bot disconnected")), i)

\* has the bot an entity (set by mineflayer from the login packet on)
hasEntity(w, i) ==
  w.inst[i].bot # 0 /\ w.sessions[w.inst[i].bot].phase \in {"loggedin", "spawned"}

\* performWander(): `moveThrows' tells whether lookAt / setControlState throws
performWander(w, i, moveThrows) ==
  IF ~hasEntity(w, i) THEN w
  ELSE
    LET w1 == [w EXCEPT !.inst[i].isWandering = TRUE,
                        !.inst[i].forwardTimers = IF moveThrows THEN @ ELSE @ + 1,
                        !.inst[i].wanderTimers = @ + 1]
    IN  emit(w1, StatusEv(i, getStatus(w1, i)))

\* the 8 s timeout of performWander (lines 396-399)
wanderTimeout(w, i) ==
  LET w1 == [w EXCEPT !.inst[i].isWandering = FALSE, !.inst[i].wanderTimers = @ - 1]
  IN  emit(w1, StatusEv(i, getStatus(w1, i)))

\* the 2 s timeout of performWander (lines 389-391): a command to the
\* session, no field of the instance changes
forwardTimeout(w, i) == [w EXCEPT !.inst[i].forwardTimers = @ - 1]

\* performRandomChat(): `says' is Math.random() < 0.3, `chatThrows' tells
\* whether bot.chat throws
performRandomChat(w, i, says, chatThrows) ==
  IF w.inst[i].bot = 0 THEN w
  ELSE IF says /\ ~chatThrows THEN emit(w, LogEv(i, "info", "Bot said")) ELSE w

(***************************************************************************)
(* The route layer: listeners of setupBotServiceEvents and the broadcaster *)
(***************************************************************************)
\* the client is in connectedClients and its readyState is OPEN
Open(c) == clientState[c] \in {"joining", "open"}

\* connectedClients.forEach(...) visits the clients in insertion order and
\* ends at the first client whose send() throws: the callback reaches
\* client c if no failing client stands before it
Reached(c) ==
  /\ Open(c)
  /\ \A k, l \in 1..Len(connectedClients) :
       (connectedClients[l] = c /\ k < l) => clientState[connectedClients[k]] # "failing"

\* the WSMessage a listener of setupBotServiceEvents builds from an event
Message(ev, svc) ==
  [ type |-> CASE ev.type = "log" -> "log_entry"
               [] ev.type = "status_update" -> "bot_status"
               [] OTHER -> "error",
    botId |-> svc[ev.inst].botId,
    data |-> ev ]

RECURSIVE Messages(_, _)
Messages(evs, svc) ==
  IF evs = << >> THEN << >>
  ELSE << Message(Head(evs), svc) >> \o Messages(Tail(evs), svc)

IsLog(ev) == ev.type = "log"
NotLog(ev) == ev.type # "log"

\* what is left of the messages sent to a client (sent) and of the events
\* it is due (due) once their common prefix is dropped
RECURSIVE Unmatched(_, _)
Unmatched(sent, due) ==
  IF sent # << >> /\ due # << >> /\ Head(sent) = Head(due)
    THEN Unmatched(Tail(sent), Tail(due))
    ELSE [ sent |-> sent, due |-> due ]

\* broadcastToClients(message) for each message of msgs, in order, when the
\* instances emitted the events of `emitted' in this step: every client in
\* connectedClients whose readyState is OPEN is sent the messages
broadcastToClients(msgs, emitted) ==
  /\ \A c \in Client : Open(c) => /\ Len(received[c]) + Len(msgs) <= MaxMsgs
                                  /\ Len(expected[c]) + Len(emitted) <= MaxMsgs
  /\ received' = [c \in Client |->
                    IF Open(c)
                      THEN Unmatched(received[c] \o (IF Reached(c) THEN msgs ELSE << >>),
                                     expected[c] \o emitted).sent
                      ELSE received[c]]
  /\ expected' = [c \in Client |->
                    IF Open(c)
                      THEN Unmatched(received[c] \o (IF Reached(c) THEN msgs ELSE << >>),
                                     expected[c] \o emitted).due
                      ELSE expected[c]]

\* The listeners run on the events `out' of one step: a status_update or
\* error event is broadcast at once, a log event waits for
\* storage.createLogEntry and is broadcast when that has returned.
Listeners(out, svc) ==
  /\ Len(pendingLogs) + Len(SelectSeq(out, IsLog)) <= MaxPending
  /\ pendingLogs' = pendingLogs \o SelectSeq(out, IsLog)
  /\ broadcastToClients(Messages(SelectSeq(out, NotLog), svc), Messages(out, svc))

TimersBounded(w) ==
  \A i \in Inst :
    /\ w.inst[i].lostReconnect <= MaxTimers
    /\ w.inst[i].lostWander <= MaxTimers
    /\ w.inst[i].lostChat <= MaxTimers
    /\ w.inst[i].forwardTimers <= MaxTimers
    /\ w.inst[i].wanderTimers <= MaxTimers

\* one step of an instance: its new fields and the events it emitted
Commit(w, act) ==
  /\ Len(w.sessions) <= MaxSess
  /\ TimersBounded(w)
  /\ inst' = w.inst
  /\ sessions' = w.sessions
  /\ usedNames' = w.usedNames
  /\ Listeners(w.out, w.inst)
  /\ lastEmit' = w.out
  /\ lastAct' = act

\* the step taken: the operation, the instance it ran on, the request
\* handler it belongs to and the response that handler sent, if any
Act(op, i, r, resp) == [ op |-> op, inst |-> i, req |-> r, resp |-> resp ]

\* the HTTP status a route handler sends with the message `resp': 400 with
\* the three rejections, 200 (the default of res.json) otherwise
httpStatus(resp) ==
  IF resp \in {"Bot configuration not found", "Bot is already running",
               "Bot not found or not running"}
    THEN 400
    ELSE IF resp = "Failed to update configuration" THEN 500 ELSE 200

\* the log listener resumes after `await storage.createLogEntry(logData)'
LogPersisted ==
  /\ pendingLogs # << >>
  /\ pendingLogs' = Tail(pendingLogs)
  /\ broadcastToClients(<< Message(Head(pendingLogs), inst) >>, << >>)
  /\ lastAct' = Act("LogPersisted", Head(pendingLogs).inst, 0, "")
  /\ lastEmit' = << >>
  /\ UNCHANGED << botConfigs, botServices, nInst, inst, sessions, usedNames, req,
                  clientState, connectedClients, stopped, returned, logVars >>

(***************************************************************************)
(* HTTP request handlers.  Every `await' is a point where other handlers,  *)
(* session events and timers can run.  A handler that has responded frees  *)
(* its slot; its response is in lastAct.                                   *)
(***************************************************************************)
ReqIds == {1}

\* the ids a request can carry: parseInt(req.params.id) is 0 for "0" and
\* NaN for a text that is no number (0 stands for both, they are falsy and
\* each is one key of the registry Map), and 2 is an id nothing is stored
\* under
Ids == {0, 1, 2}

NoConfig == BotConfig(FALSE, 0, FALSE, FALSE, FALSE)

IdleReq == [ kind |-> "none", id |-> 0, pc |-> "idle", found |-> FALSE, config |-> NoConfig ]

\* the slot a new request takes: the lowest idle one
Free(r) == req[r].pc = "idle" /\ \A q \in Req : q < r => req[q].pc # "idle"

\* MemStorage.getBotConfig(id)
getBotConfig(id) ==
  IF id # 0
    THEN IF id \in StoredIds THEN [found |-> TRUE, config |-> botConfigs[id]]
         ELSE [found |-> FALSE, config |-> NoConfig]
    ELSE [found |-> TRUE, config |-> botConfigs[1]]

\* MemStorage.updateBotStatus(id, isActive)
updateBotStatus(id, isActive) ==
  [k \in StoredIds |-> IF k = id THEN [botConfigs[k] EXCEPT !.isActive = isActive]
                       ELSE botConfigs[k]]

\* MemStorage.updateBotConfig(config, id): the stored config with the fields
\* of the request body over it (the body has no id; one without isActive)
updateBotConfig(body, id) ==
  LET configId == IF id # 0 THEN id ELSE 1
  IN  [k \in StoredIds |->
         IF k = configId
           THEN [body EXCEPT !.id = botConfigs[k].id, !.isActive = botConfigs[k].isActive]
           ELSE botConfigs[k]]

\* MinecraftBotService.updateConfig(config)
updateConfig(w, i, config) == [w EXCEPT !.inst[i].config = config]

\* PUT /api/config/:id? with a valid body: the stored config is replaced,
\* and handed to the instance registered under its id, if there is one
UpdateConfig(id, body) ==
  LET configId == IF id # 0 THEN id ELSE 1
  IN  IF configId \notin StoredIds
        THEN /\ lastAct' = Act("UpdateConfig", 0, 0, "Failed to update configuration")
             /\ lastEmit' = << >>
             /\ UNCHANGED << botConfigs, botServices, nInst, inst, sessions, usedNames, req,
                             clientState, connectedClients, pendingLogs, received, expected, stopped, returned, logVars >>
        ELSE LET updated == updateBotConfig(body, id)[configId]
                 j == botServices[updated.id]
             IN  /\ botConfigs' = updateBotConfig(body, id)
                 /\ Commit(IF j # 0 THEN updateConfig(World, j, updated) ELSE World,
                           Act("UpdateConfig", j, 0, "updated"))
                 /\ UNCHANGED << botServices, nInst, req, clientState, connectedClients, stopped, returned, logVars >>

\* POST /api/bot/:id/start up to `await storage.getBotConfig(botId)'
StartRequest(r, id) ==
  /\ Free(r)
  /\ req' = [req EXCEPT ![r] = [ kind |-> "start", id |-> id, pc |-> "getBotConfig",
                                 found |-> getBotConfig(id).found,
                                 config |-> getBotConfig(id).config ]]
  /\ lastAct' = Act("StartRequest", 0, r, "")
  /\ lastEmit' = << >>
  /\ UNCHANGED << botConfigs, botServices, nInst, inst, sessions, usedNames,
                  clientState, connectedClients, pendingLogs, received, expected, stopped, returned, logVars >>

\* ... from there to `await botService.start()': the checks, the
\* construction and registration of the instance and the body of start()
StartCheck_has(r, throws) ==
  /\ req[r].kind = "start" /\ req[r].pc = "getBotConfig"
  /\ throws => req[r].found /\ ~(botServices[req[r].id] # 0)
  /\ LET id == req[r].id IN
     IF ~req[r].found
       THEN /\ req' = [req EXCEPT ![r] = IdleReq]
            /\ lastAct' = Act("StartCheck", 0, r, "Bot configuration not found")
            /\ lastEmit' = << >>
            /\ UNCHANGED << botConfigs, botServices, nInst, inst, sessions, usedNames,
                            clientState, connectedClients, pendingLogs, received, expected, stopped, returned, logVars >>
     ELSE IF botServices[id] # 0
       THEN /\ req' = [req EXCEPT ![r] = IdleReq]
            /\ lastAct' = Act("StartCheck", botServices[id], r, "Bot is already running")
            /\ lastEmit' = << >>
            /\ UNCHANGED << botConfigs, botServices, nInst, inst, sessions, usedNames,
                            clientState, connectedClients, pendingLogs, received, expected, stopped, returned, logVars >>
     ELSE /\ nInst < MaxInst
          /\ LET k == nInst + 1
                 w0 == [World EXCEPT !.inst[k] = NewService(req[r].config, id)]
             IN  \E name \in NameDraws(w0, k) :
                   Commit(start(w0, k, name, throws), Act("StartCheck", k, r, ""))
          /\ nInst' = nInst + 1
          /\ botServices' = [botServices EXCEPT ![id] = nInst + 1]
          /\ req' = [req EXCEPT ![r].pc = "awaitStart", ![r].config = NoConfig]
          /\ UNCHANGED << botConfigs, clientState, connectedClients, stopped, returned, logVars >>

StartCheck(r, throws) ==
  /\ req[r].kind = "start" /\ req[r].pc = "getBotConfig"
  /\ throws => req[r].found /\ ~(botServices[req[r].id] # 0
                                    /\ isConnected(World, botServices[req[r].id]))
  /\ LET id == req[r].id IN
     IF ~req[r].found
       THEN /\ req' = [req EXCEPT ![r] = IdleReq]
            /\ lastAct' = Act("StartCheck", 0, r, "Bot configuration not found")
            /\ lastEmit' = << >>
            /\ UNCHANGED << botConfigs, botServices, nInst, inst, sessions, usedNames,
                            clientState, connectedClients, pendingLogs, received, expected, stopped, returned, logVars >>
     ELSE IF botServices[id] # 0 /\ isConnected(World, botServices[id])
       THEN /\ req' = [req EXCEPT ![r] = IdleReq]
            /\ lastAct' = Act("StartCheck", botServices[id], r, "Bot is already running")
            /\ lastEmit' = << >>
            /\ UNCHANGED << botConfigs, botServices, nInst, inst, sessions, usedNames,
                            clientState, connectedClients, pendingLogs, received, expected, stopped, returned, logVars >>
     ELSE /\ nInst < MaxInst
          /\ LET k == nInst + 1
                 w0 == [World EXCEPT !.inst[k] = NewService(req[r].config, id)]
             IN  \E name \in NameDraws(w0, k) :
                   Commit(start(w0, k, name, throws), Act("StartCheck", k, r, ""))
          /\ nInst' = nInst + 1
          /\ botServices' = [botServices EXCEPT ![id] = nInst + 1]
          /\ req' = [req EXCEPT ![r].pc = "awaitStart", ![r].config = NoConfig]
          /\ UNCHANGED << botConfigs, clientState, connectedClients, stopped, returned, logVars >>

\* ... to `await storage.updateBotStatus(botId, true)'
StartUpdateStatus(r) ==
  /\ req[r].kind = "start" /\ req[r].pc = "awaitStart"
  /\ botConfigs' = updateBotStatus(req[r].id, TRUE)
  /\ req' = [req EXCEPT ![r].pc = "awaitUpdate"]
  /\ lastAct' = Act("StartUpdateStatus", 0, r, "")
  /\ lastEmit' = << >>
  /\ UNCHANGED << botServices, nInst, inst, sessions, usedNames,
                  clientState, connectedClients, pendingLogs, received, expected, stopped, returned, logVars >>

\* ... to `await storage.getAllBotConfigs()', for both routes
RouteGetAll(r) ==
  /\ req[r].pc = "awaitUpdate"
  /\ req' = [req EXCEPT ![r].pc = "awaitAll"]
  /\ lastAct' = Act("RouteGetAll", 0, r, "")
  /\ lastEmit' = << >>
  /\ UNCHANGED << botConfigs, botServices, nInst, inst, sessions, usedNames,
                  clientState, connectedClients, pendingLogs, received, expected, stopped, returned, logVars >>

\* ... the bots_update broadcast and the response, for both routes.  A
\* bots_update message carries the stored configs, no event of an instance:
\* the model keeps no record of it.
RouteRespond(r) ==
  /\ req[r].pc = "awaitAll"
  /\ req' = [req EXCEPT ![r] = IdleReq]
  /\ lastAct' = Act("RouteRespond", 0, r,
                    IF req[r].kind = "start" THEN "Bot start initiated" ELSE "Bot stopped")
  /\ lastEmit' = << >>
  /\ UNCHANGED << botConfigs, botServices, nInst, inst, sessions, usedNames,
                  clientState, connectedClients, pendingLogs, received, expected, stopped, returned, logVars >>

\* POST /api/bot/:id/stop up to `await botService.stop()', the body of
\* stop() included
StopRequest(r, id, quitThrows) ==
  /\ Free(r)
  /\ quitThrows => botServices[id] # 0 /\ inst[botServices[id]].bot # 0
  /\ IF botServices[id] = 0
       THEN /\ lastAct' = Act("StopRequest", 0, r, "Bot not found or not running")
            /\ lastEmit' = << >>
            /\ UNCHANGED << botConfigs, botServices, nInst, inst, sessions, usedNames, req,
                            clientState, connectedClients, pendingLogs, received, expected, stopped, returned, logVars >>
       ELSE /\ Commit(stop(World, botServices[id], quitThrows),
                      Act("StopRequest", botServices[id], r, ""))
            /\ stopped' = stopped \cup {botServices[id]}
            /\ req' = [req EXCEPT ![r] = [IdleReq EXCEPT !.kind = "stop", !.id = id,
                                                         !.pc = "awaitStop"]]
            /\ UNCHANGED << botConfigs, botServices, nInst, clientState, connectedClients, returned, logVars >>

\* GET /api/bot/:id/status: the snapshot of the registered instance, or the
\* default snapshot of an id without one
GetStatus_emits(id) ==
  /\ botServices[id] # 0
  /\ Commit(emit(World, StatusEv(botServices[id], getStatus(World, botServices[id]))),
            Act("GetStatus", botServices[id], 0, "connected"))
  /\ UNCHANGED << botConfigs, botServices, nInst, req, clientState, connectedClients, stopped, returned, logVars >>

GetStatus(id) ==
  /\ lastAct' = Act("GetStatus", botServices[id], 0,
                    IF botServices[id] # 0 /\ getStatus(World, botServices[id]).connected
                      THEN "connected" ELSE "disconnected")
  /\ lastEmit' = << >>
  /\ UNCHANGED << botConfigs, botServices, nInst, inst, sessions, usedNames, req,
                  clientState, connectedClients, pendingLogs, received, expected, stopped, returned, logVars >>

\* ... to `await storage.updateBotStatus(botId, false)'
StopDelete_keep(r) ==
  /\ req[r].kind = "stop" /\ req[r].pc = "awaitStop"
  /\ botConfigs' = updateBotStatus(req[r].id, FALSE)
  /\ req' = [req EXCEPT ![r].pc = "awaitUpdate"]
  /\ lastAct' = Act("StopDelete", 0, r, "")
  /\ lastEmit' = << >>
  /\ UNCHANGED << botServices, nInst, inst, sessions, usedNames,
                  clientState, connectedClients, pendingLogs, received, expected, stopped, returned, logVars >>

StopDelete(r) ==
  /\ req[r].kind = "stop" /\ req[r].pc = "awaitStop"
  /\ botServices' = [botServices EXCEPT ![req[r].id] = 0]
  /\ botConfigs' = updateBotStatus(req[r].id, FALSE)
  /\ req' = [req EXCEPT ![r].pc = "awaitUpdate"]
  /\ lastAct' = Act("StopDelete", 0, r, "")
  /\ lastEmit' = << >>
  /\ UNCHANGED << nInst, inst, sessions, usedNames,
                  clientState, connectedClients, pendingLogs, received, expected, stopped, returned, logVars >>

(***************************************************************************)
(* Events of the mineflayer bots.  The handlers of setupBotEvents run on   *)
(* an event only while the listeners are attached to the bot: an event of  *)
(* a bot without listeners reaches no handler, and only the end of its     *)
(* connection is a step of the model.                                      *)
(***************************************************************************)
SessLogin(s) ==
  /\ s \in 1..Len(sessions) /\ sessions[s].phase = "connecting"
  /\ sessions[s].listeners
  /\ LET i == sessions[s].inst
         w0 == [World EXCEPT !.sessions[s].phase = "loggedin"]
     IN  Commit(onLogin(w0, i),
                Act("SessLogin", i, 0, ""))
  /\ UNCHANGED << botConfigs, botServices, nInst, req, clientState, connectedClients, stopped, returned, logVars >>

\* the first spawn and every respawn
SessSpawn(s) ==
  /\ s \in 1..Len(sessions) /\ sessions[s].phase \in {"loggedin", "spawned"}
  /\ sessions[s].listeners
  /\ LET i == sessions[s].inst
         w0 == [World EXCEPT !.sessions[s].phase = "spawned"]
     IN  Commit(onSpawn(w0, i),
                Act("SessSpawn", i, 0, ""))
  /\ UNCHANGED << botConfigs, botServices, nInst, req, clientState, connectedClients, stopped, returned, logVars >>

\* a network error: the connection is broken
SessError(s, code) ==
  /\ s \in 1..Len(sessions) /\ Live(sessions[s])
  /\ sessions[s].listeners
  /\ LET i == sessions[s].inst
         w0 == [World EXCEPT !.sessions[s].phase = "failed"]
     IN  Commit(onError(w0, i, code),
                Act("SessError", i, 0, ""))
  /\ UNCHANGED << botConfigs, botServices, nInst, req, clientState, connectedClients, stopped, returned, logVars >>

\* the server kicked the bot
SessKicked(s) ==
  /\ s \in 1..Len(sessions) /\ Live(sessions[s])
  /\ sessions[s].listeners
  /\ LET i == sessions[s].inst
         w0 == [World EXCEPT !.sessions[s].phase = "failed"]
     IN  Commit(onKicked(w0, i),
                Act("SessKicked", i, 0, ""))
  /\ UNCHANGED << botConfigs, botServices, nInst, req, clientState, connectedClients, stopped, returned, logVars >>

\* the connection has ended, after a failure or on its own
SessEnd(s) ==
  /\ s \in 1..Len(sessions) /\ sessions[s].phase # "closed"
  /\ LET i == sessions[s].inst
         w0 == [World EXCEPT !.sessions[s].phase = "closed"]
     IN  Commit(IF sessions[s].listeners THEN onEnd(w0, i) ELSE w0,
                Act("SessEnd", IF sessions[s].listeners THEN i ELSE 0, 0, ""))
  /\ UNCHANGED << botConfigs, botServices, nInst, req, clientState, connectedClients, stopped, returned, logVars >>

(***************************************************************************)
(* Timers of the runtime.                                                  *)
(***************************************************************************)
\* a pending reconnect timeout fires (lines 317-319): this.start()
ReconnectTimer(i, throws) ==
  /\ i \in 1..nInst
  /\ throws => inst[i].bot = 0
  /\ \E lost \in BOOLEAN :
       /\ IF lost THEN inst[i].lostReconnect > 0 ELSE inst[i].reconnectTimeout = "pending"
       /\ LET w0 == IF lost THEN [World EXCEPT !.inst[i].lostReconnect = @ - 1]
                    ELSE [World EXCEPT !.inst[i].reconnectTimeout = "fired"]
          IN  \E name \in NameDraws(w0, i) :
                Commit(start(w0, i, name, throws), Act("ReconnectTimer", i, 0, ""))
  /\ UNCHANGED << botConfigs, botServices, nInst, req, clientState, connectedClients, stopped, returned, logVars >>

\* a running wander interval fires (lines 352-354): this.performWander()
WanderTick(i) ==
  /\ i \in 1..nInst
  /\ inst[i].wanderInterval = "running" \/ inst[i].lostWander > 0
  /\ \E moveThrows \in BOOLEAN :
       /\ moveThrows => hasEntity(World, i)
       /\ Commit(performWander(World, i, moveThrows), Act("WanderTick", i, 0, ""))
  /\ UNCHANGED << botConfigs, botServices, nInst, req, clientState, connectedClients, stopped, returned, logVars >>

\* a pending 2 s timeout of performWander fires
ForwardTimer(i) ==
  /\ i \in 1..nInst
  /\ inst[i].forwardTimers > 0
  /\ Commit(forwardTimeout(World, i), Act("ForwardTimer", i, 0, ""))
  /\ UNCHANGED << botConfigs, botServices, nInst, req, clientState, connectedClients, stopped, returned, logVars >>

\* a pending 8 s timeout of performWander fires
WanderTimer(i) ==
  /\ i \in 1..nInst
  /\ inst[i].wanderTimers > 0
  /\ Commit(wanderTimeout(World, i), Act("WanderTimer", i, 0, ""))
  /\ UNCHANGED << botConfigs, botServices, nInst, req, clientState, connectedClients, stopped, returned, logVars >>

\* a running chat interval fires (lines 360-362): this.performRandomChat()
ChatTick(i) ==
  /\ i \in 1..nInst
  /\ inst[i].chatInterval = "running" \/ inst[i].lostChat > 0
  /\ \E says \in BOOLEAN, chatThrows \in BOOLEAN :
       /\ chatThrows => (says /\ inst[i].bot # 0)
       /\ says => inst[i].bot # 0
       /\ Commit(performRandomChat(World, i, says, chatThrows), Act("ChatTick", i, 0, ""))
  /\ UNCHANGED << botConfigs, botServices, nInst, req, clientState, connectedClients, stopped, returned, logVars >>

(***************************************************************************)
(* WebSocket clients.                                                      *)
(***************************************************************************)
\* wss.on('connection') up to `await storage.getAllBotConfigs()'
ClientConnect(c) ==
  /\ clientState[c] = "absent"
  /\ clientState' = [clientState EXCEPT ![c] = "joining"]
  /\ connectedClients' = Append(connectedClients, c)
  /\ lastAct' = Act("ClientConnect", 0, 0, "")
  /\ lastEmit' = << >>
  /\ UNCHANGED << botConfigs, botServices, nInst, inst, sessions, usedNames, req,
                  pendingLogs, received, expected, stopped, returned, logVars >>

\* ... and the bots_update sent to the new client
ClientGreeted(c) ==
  /\ clientState[c] = "joining"
  /\ clientState' = [clientState EXCEPT ![c] = "open"]
  /\ UNCHANGED connectedClients
  /\ lastAct' = Act("ClientGreeted", 0, 0, "")
  /\ lastEmit' = << >>
  /\ UNCHANGED << botConfigs, botServices, nInst, inst, sessions, usedNames, req,
                  pendingLogs, received, expected, stopped, returned, logVars >>

\* the connection of a client goes down: readyState is no longer OPEN
ClientClosing(c) ==
  /\ clientState[c] \in {"open", "failing"}
  /\ clientState' = [clientState EXCEPT ![c] = "closing"]
  /\ UNCHANGED connectedClients
  /\ lastAct' = Act("ClientClosing", 0, 0, "")
  /\ lastEmit' = << >>
  /\ UNCHANGED << botConfigs, botServices, nInst, inst, sessions, usedNames, req,
                  pendingLogs, received, expected, stopped, returned, logVars >>

\* the socket of an open client breaks in a way that makes send() throw
\* while readyState still is OPEN
ClientSendFails(c) ==
  /\ clientState[c] = "open"
  /\ clientState' = [clientState EXCEPT ![c] = "failing"]
  /\ lastAct' = Act("ClientSendFails", 0, 0, "")
  /\ lastEmit' = << >>
  /\ UNCHANGED << botConfigs, botServices, nInst, inst, sessions, usedNames, req,
                  connectedClients, pendingLogs, received, expected, stopped, returned, logVars >>

\* ws.on('close') / ws.on('error'): the client leaves connectedClients
ClientClosed(c) ==
  /\ clientState[c] = "closing"
  /\ clientState' = [clientState EXCEPT ![c] = "absent"]
  /\ connectedClients' = SelectSeq(connectedClients, LAMBDA d : d # c)
  /\ received' = [received EXCEPT ![c] = << >>]
  /\ expected' = [expected EXCEPT ![c] = << >>]
  /\ lastAct' = Act("ClientClosed", 0, 0, "")
  /\ lastEmit' = << >>
  /\ UNCHANGED << botConfigs, botServices, nInst, inst, sessions, usedNames, req,
                  pendingLogs, stopped, returned, logVars >>

(***************************************************************************)
(* Specifications.                                                         *)
(***************************************************************************)
Configs(autos, maxes, wanders, chats, randoms) ==
  { BotConfig(a, m, w, c, n) :
      a \in autos, m \in maxes, w \in wanders, c \in chats, n \in randoms }

InitWith(configs, inUse) ==
  /\ botConfigs \in [StoredIds -> configs]
  /\ botServices = [id \in Ids |-> 0]
  /\ nInst = 0
  /\ inst = [i \in Inst |-> NewService(NoConfig, 0)]
  /\ sessions = << >>
  /\ usedNames \in inUse
  /\ req = [r \in Req |-> IdleReq]
  /\ clientState = [c \in Client |-> "absent"]
  /\ connectedClients = << >>
  /\ pendingLogs = << >>
  /\ received = [c \in Client |-> << >>]
  /\ expected = [c \in Client |-> << >>]
  /\ stopped = {}
  /\ returned = << >>
  /\ logs = << >>
  /\ currentLogId = 1
  /\ now = 0
  /\ lastRead = [limit |-> 0, entries |-> << >>]
  /\ lastAct = Act("Init", 0, 0, "")
  /\ lastEmit = << >>

Quiet_slow == TRUE

\* `storage' is a MemStorage, and its createLogEntry() has no await of its
\* own: the promise it returns is resolved, and a log listener waiting on it
\* resumes from the microtask queue, before the event loop runs another
\* request handler, session event, timer or WebSocket callback.
Quiet == pendingLogs = << >>

\* Overlapping request handlers on one id.
Init == InitWith(Configs(BOOLEAN, {1}, {FALSE}, {FALSE}, {FALSE}), {{}})

Next ==
  \/ LogPersisted
  \/ \E r \in Req, id \in ReqIds : Quiet /\ StartRequest(r, id)
  \/ \E r \in Req : Quiet /\ StartCheck(r, FALSE) /\ Len(sessions') <= MaxShared
  \/ \E r \in Req : Quiet /\ StartUpdateStatus(r)
  \/ \E r \in Req : Quiet /\ RouteGetAll(r)
  \/ \E r \in Req : Quiet /\ RouteRespond(r)
  \/ \E r \in Req, id \in ReqIds : Quiet /\ StopRequest(r, id, FALSE)
  \/ \E r \in Req : Quiet /\ StopDelete(r)
  \/ \E s \in 1..MaxSess : Quiet /\ SessLogin(s)
  \/ \E s \in 1..MaxSess : Quiet /\ SessSpawn(s)
  \/ \E s \in 1..MaxSess, code \in {"ECONNRESET", "OTHER"} : Quiet /\ SessError(s, code)
  \/ \E s \in 1..MaxSess : Quiet /\ SessKicked(s)
  \/ \E s \in 1..MaxSess : Quiet /\ SessEnd(s)
  \/ \E i \in Inst : Quiet /\ ReconnectTimer(i, FALSE) /\ Len(sessions') <= MaxShared

Spec == Init /\ [][Next]_vars

\* The reconnect policy: one request handler at a time, every policy.
InitPolicy == InitWith(Configs(BOOLEAN, 0..MaxAttempts, {FALSE}, {FALSE}, {FALSE}), {{}})

NextPolicy ==
  \/ LogPersisted
  \/ \E r \in {1}, id \in ReqIds : Quiet /\ StartRequest(r, id)
  \/ \E r \in {1} : Quiet /\ StartCheck(r, FALSE)
  \/ \E r \in {1} : Quiet /\ StartUpdateStatus(r)
  \/ \E r \in {1} : Quiet /\ RouteGetAll(r)
  \/ \E r \in {1} : Quiet /\ RouteRespond(r)
  \/ \E r \in {1}, id \in ReqIds : Quiet /\ StopRequest(r, id, FALSE)
  \/ \E r \in {1} : Quiet /\ StopDelete(r)
  \/ \E s \in 1..MaxSess : Quiet /\ SessLogin(s)
  \/ \E s \in 1..MaxSess : Quiet /\ SessSpawn(s)
  \/ \E s \in 1..MaxSess, code \in ErrorCodes : Quiet /\ SessError(s, code)
  \/ \E s \in 1..MaxSess : Quiet /\ SessKicked(s)
  \/ \E s \in 1..MaxSess : Quiet /\ SessEnd(s)
  \/ \E i \in Inst, throws \in BOOLEAN : Quiet /\ ReconnectTimer(i, throws)

SpecPolicy == InitPolicy /\ [][NextPolicy]_vars

\* Random names across reconnects.
InitNamed == InitWith(Configs({TRUE}, {1}, {FALSE}, {FALSE}, {TRUE}), {{}})

NextNamed ==
  \/ LogPersisted
  \/ \E r \in {1}, id \in ReqIds : Quiet /\ StartRequest(r, id)
  \/ \E r \in {1} : Quiet /\ StartCheck(r, FALSE) /\ Len(sessions') <= MaxShared
  \/ \E r \in {1} : Quiet /\ StartUpdateStatus(r)
  \/ \E r \in {1} : Quiet /\ RouteGetAll(r)
  \/ \E r \in {1} : Quiet /\ RouteRespond(r)
  \/ \E r \in {1}, id \in ReqIds : Quiet /\ StopRequest(r, id, FALSE)
  \/ \E r \in {1} : Quiet /\ StopDelete(r)
  \/ \E s \in 1..MaxSess : Quiet /\ SessLogin(s)
  \/ \E s \in 1..MaxSess : Quiet /\ SessSpawn(s)
  \/ \E s \in 1..MaxSess, code \in {"ECONNRESET"} : Quiet /\ SessError(s, code)
  \/ \E s \in 1..MaxSess : Quiet /\ SessKicked(s)
  \/ \E s \in 1..MaxSess : Quiet /\ SessEnd(s)
  \/ \E i \in Inst : Quiet /\ ReconnectTimer(i, FALSE) /\ Len(sessions') <= MaxShared

SpecNamed == InitNamed /\ [][NextNamed]_vars

\* The scenario of two and more connection attempts that fail: the config
\* {autoReconnect: true, reconnectInterval: 1, maxReconnectAttempts: 2} and
\* sessions that never log in.
ScenarioConfig == [BotConfig(TRUE, 2, FALSE, FALSE, FALSE) EXCEPT !.reconnectInterval = 1]

InitScenario == InitWith({ScenarioConfig}, {{}})

NextScenario ==
  \/ LogPersisted
  \/ \E r \in {1}, id \in ReqIds : Quiet /\ StartRequest(r, id)
  \/ \E r \in {1}, throws \in BOOLEAN : Quiet /\ StartCheck(r, throws)
  \/ \E r \in {1} : Quiet /\ StartUpdateStatus(r)
  \/ \E r \in {1} : Quiet /\ RouteGetAll(r)
  \/ \E r \in {1} : Quiet /\ RouteRespond(r)
  \/ \E r \in {1}, id \in ReqIds : Quiet /\ StopRequest(r, id, FALSE)
  \/ \E r \in {1} : Quiet /\ StopDelete(r)
  \/ \E s \in 1..MaxSess, code \in ErrorCodes : Quiet /\ SessError(s, code)
  \/ \E s \in 1..MaxSess : Quiet /\ SessKicked(s)
  \/ \E s \in 1..MaxSess : Quiet /\ SessEnd(s)
  \/ \E i \in Inst, throws \in BOOLEAN : Quiet /\ ReconnectTimer(i, throws)

SpecScenario == InitScenario /\ [][NextScenario]_vars

\* The wander and chat behaviours.
InitBehave == InitWith(Configs({TRUE}, {1}, {TRUE}, {TRUE}, {FALSE}), {{}})

NextBehave ==
  \/ LogPersisted
  \/ \E r \in {1}, id \in ReqIds : Quiet /\ StartRequest(r, id)
  \/ \E r \in {1} : Quiet /\ StartCheck(r, FALSE) /\ Len(sessions') <= MaxShared
  \/ \E r \in {1} : Quiet /\ StartUpdateStatus(r)
  \/ \E r \in {1} : Quiet /\ RouteGetAll(r)
  \/ \E r \in {1} : Quiet /\ RouteRespond(r)
  \/ \E r \in {1}, id \in ReqIds : Quiet /\ StopRequest(r, id, FALSE)
  \/ \E r \in {1} : Quiet /\ StopDelete(r)
  \/ \E s \in 1..MaxSess : Quiet /\ SessLogin(s)
  \/ \E s \in 1..MaxSess : Quiet /\ SessSpawn(s)
  \/ \E s \in 1..MaxSess, code \in {"ECONNRESET"} : Quiet /\ SessError(s, code)
  \/ \E s \in 1..MaxSess : Quiet /\ SessKicked(s)
  \/ \E s \in 1..MaxSess : Quiet /\ SessEnd(s)
  \/ \E i \in Inst : Quiet /\ ReconnectTimer(i, FALSE) /\ Len(sessions') <= MaxShared
  \/ \E i \in Inst : Quiet /\ WanderTick(i)
  \/ \E i \in Inst : Quiet /\ ForwardTimer(i)
  \/ \E i \in Inst : Quiet /\ WanderTimer(i)
  \/ \E i \in Inst : Quiet /\ ChatTick(i)

SpecBehave == InitBehave /\ [][NextBehave]_vars

\* The broadcaster: WebSocket clients come and go while an instance runs.
Watchers == Client

InitBroadcast == InitWith(Configs({FALSE}, {1}, {FALSE}, {FALSE}, {FALSE}), {{}})

NextBroadcast ==
  \/ LogPersisted
  \/ \E r \in {1}, id \in ReqIds : Quiet /\ StartRequest(r, id)
  \/ \E r \in {1} : Quiet /\ StartCheck(r, FALSE) /\ Len(sessions') <= MaxWatched
  \/ \E r \in {1} : Quiet /\ StartUpdateStatus(r)
  \/ \E r \in {1} : Quiet /\ RouteGetAll(r)
  \/ \E r \in {1} : Quiet /\ RouteRespond(r)
  \/ \E r \in {1}, id \in ReqIds : Quiet /\ StopRequest(r, id, FALSE)
  \/ \E r \in {1} : Quiet /\ StopDelete(r)
  \/ \E s \in 1..MaxSess : Quiet /\ SessLogin(s)
  \/ \E s \in 1..MaxSess : Quiet /\ SessSpawn(s)
  \/ \E s \in 1..MaxSess, code \in {"ECONNRESET"} : Quiet /\ SessError(s, code)
  \/ \E s \in 1..MaxSess : Quiet /\ SessKicked(s)
  \/ \E s \in 1..MaxSess : Quiet /\ SessEnd(s)
  \/ \E c \in Watchers : Quiet /\ ClientConnect(c)
  \/ \E c \in Watchers : Quiet /\ ClientGreeted(c)
  \/ \E c \in Watchers : Quiet /\ ClientClosing(c)
  \/ \E c \in Watchers : Quiet /\ ClientClosed(c)

SpecBroadcast == InitBroadcast /\ [][NextBroadcast]_vars

\* Teardown: stop() on sessions whose quit() may throw, with behaviours and
\* allocated names to release, and status reads in every state.
InitTeardown == InitWith(Configs({TRUE}, {1}, {TRUE}, {FALSE}, {TRUE}), {{}})

NextTeardown ==
  \/ LogPersisted
  \/ \E id \in ReqIds : Quiet /\ StartRequest(1, id)
  \/ Quiet /\ StartCheck(1, FALSE) /\ Len(sessions') <= MaxWatched
  \/ Quiet /\ StartUpdateStatus(1)
  \/ Quiet /\ RouteGetAll(1)
  \/ Quiet /\ RouteRespond(1)
  \/ \E id \in ReqIds, quitThrows \in BOOLEAN : Quiet /\ StopRequest(1, id, quitThrows)
  \/ Quiet /\ StopDelete(1)
  \/ \E id \in ReqIds : Quiet /\ GetStatus(id)
  \/ \E s \in 1..MaxSess : Quiet /\ SessLogin(s)
  \/ \E s \in 1..MaxSess : Quiet /\ SessSpawn(s)
  \/ \E s \in 1..MaxSess : Quiet /\ SessError(s, "ECONNRESET")
  \/ \E s \in 1..MaxSess : Quiet /\ SessEnd(s)

SpecTeardown == InitTeardown /\ [][NextTeardown]_vars

\* Connection failures: createBot() may throw, in start() from the route and
\* from the reconnect timer, and a Session may fail with any error code.
InitErrors == InitWith(Configs(BOOLEAN, {0, 1}, {FALSE}, {FALSE}, {FALSE}), {{}})

NextErrors ==
  \/ LogPersisted
  \/ \E id \in ReqIds : Quiet /\ StartRequest(1, id)
  \/ \E throws \in BOOLEAN : Quiet /\ StartCheck(1, throws) /\ Len(sessions') <= MaxShared
  \/ Quiet /\ StartUpdateStatus(1)
  \/ Quiet /\ RouteGetAll(1)
  \/ Quiet /\ RouteRespond(1)
  \/ \E s \in 1..MaxSess : Quiet /\ SessLogin(s)
  \/ \E s \in 1..MaxSess, code \in ErrorCodes : Quiet /\ SessError(s, code)
  \/ \E s \in 1..MaxSess : Quiet /\ SessEnd(s)
  \/ \E i \in Inst, throws \in BOOLEAN :
       Quiet /\ ReconnectTimer(i, throws) /\ Len(sessions') <= MaxShared

SpecErrors == InitErrors /\ [][NextErrors]_vars

\* Updates of the stored configuration while instances run.
InitConfig == InitWith(Configs(BOOLEAN, {1}, {FALSE}, {FALSE}, {FALSE}), {{}})

NextConfig ==
  \/ LogPersisted
  \/ \E id \in ReqIds : Quiet /\ StartRequest(1, id)
  \/ Quiet /\ StartCheck(1, FALSE) /\ Len(sessions') <= MaxShared
  \/ Quiet /\ StartUpdateStatus(1)
  \/ Quiet /\ RouteGetAll(1)
  \/ Quiet /\ RouteRespond(1)
  \/ \E id \in ReqIds : Quiet /\ StopRequest(1, id, FALSE)
  \/ Quiet /\ StopDelete(1)
  \/ \E id \in Ids, body \in Configs(BOOLEAN, {1}, {FALSE}, {FALSE}, {FALSE}) :
       Quiet /\ UpdateConfig(id, body)
  \/ \E s \in 1..MaxSess : Quiet /\ SessError(s, "ECONNRESET")
  \/ \E i \in Inst : Quiet /\ ReconnectTimer(i, FALSE) /\ Len(sessions') <= MaxShared

SpecConfig == InitConfig /\ [][NextConfig]_vars

\* Fan-out to clients of which some fail on send.
InitFanout == InitWith(Configs({FALSE}, {1}, {FALSE}, {FALSE}, {FALSE}), {{}})

NextFanout ==
  \/ LogPersisted
  \/ \E id \in ReqIds : Quiet /\ StartRequest(1, id)
  \/ Quiet /\ StartCheck(1, FALSE) /\ Len(sessions') <= MaxWatched
  \/ Quiet /\ StartUpdateStatus(1)
  \/ Quiet /\ RouteGetAll(1)
  \/ Quiet /\ RouteRespond(1)
  \/ \E s \in 1..MaxSess : Quiet /\ SessLogin(s)
  \/ \E s \in 1..MaxSess : Quiet /\ SessEnd(s)
  \/ \E c \in Client : Quiet /\ ClientConnect(c)
  \/ \E c \in Client : Quiet /\ ClientGreeted(c)
  \/ \E c \in Client : Quiet /\ ClientSendFails(c)
  \/ \E c \in Client : Quiet /\ ClientClosing(c)
  \/ \E c \in Client : Quiet /\ ClientClosed(c)

SpecFanout == InitFanout /\ [][NextFanout]_vars

\* Names over several runs: an instance that reconnects, is replaced in the
\* registry and stopped, with as many Sessions as the model has.
InitReuse == InitWith(Configs({TRUE}, {1}, {FALSE}, {FALSE}, {TRUE}), {{}})

NextReuse ==
  \/ LogPersisted
  \/ \E id \in ReqIds : Quiet /\ StartRequest(1, id)
  \/ Quiet /\ StartCheck(1, FALSE)
  \/ Quiet /\ StartUpdateStatus(1)
  \/ Quiet /\ RouteGetAll(1)
  \/ Quiet /\ RouteRespond(1)
  \/ \E id \in ReqIds : Quiet /\ StopRequest(1, id, FALSE)
  \/ Quiet /\ StopDelete(1)
  \/ \E s \in 1..MaxSess : Quiet /\ SessError(s, "ECONNRESET")
  \/ \E i \in Inst : Quiet /\ ReconnectTimer(i, FALSE)

SpecReuse == InitReuse /\ [][NextReuse]_vars

\* Requests with any id.
InitIds == InitWith(Configs({FALSE}, {1}, {FALSE}, {FALSE}, {FALSE}), {{}})

NextIds ==
  \/ LogPersisted
  \/ \E id \in Ids : Quiet /\ StartRequest(1, id)
  \/ Quiet /\ StartCheck(1, FALSE) /\ Len(sessions') <= MaxShared
  \/ Quiet /\ StartUpdateStatus(1)
  \/ Quiet /\ RouteGetAll(1)
  \/ Quiet /\ RouteRespond(1)
  \/ \E id \in Ids : Quiet /\ StopRequest(1, id, FALSE)
  \/ Quiet /\ StopDelete(1)
  \/ \E s \in 1..MaxSess : Quiet /\ SessLogin(s)
  \/ \E s \in 1..MaxSess : Quiet /\ SessEnd(s)

SpecIds == InitIds /\ [][NextIds]_vars

\* The log store on its own: createLogEntry, getLogEntries and
\* clearLogEntries of MemStorage, with a clock that may or may not advance
\* between two entries.  The steps of instances in the other specifications
\* keep no record of the entries their log listeners store.
Tick ==
  /\ now < MaxClock
  /\ now' = now + 1
  /\ lastAct' = Act("Tick", 0, 0, "")
  /\ lastEmit' = << >>
  /\ UNCHANGED << botConfigs, botServices, nInst, inst, sessions, usedNames, req,
                  clientState, connectedClients, pendingLogs, received, expected, stopped,
                  returned, logs, currentLogId, lastRead >>

\* MemStorage.createLogEntry(entry)
createLogEntry(store, id, timestamp) == Append(store, [id |-> id, timestamp |-> timestamp])

CreateLogEntry ==
  /\ Len(logs) < MaxLogs
  /\ logs' = createLogEntry(logs, currentLogId, now)
  /\ currentLogId' = currentLogId + 1
  /\ lastAct' = Act("CreateLogEntry", 0, 0, "")
  /\ lastEmit' = << >>
  /\ UNCHANGED << botConfigs, botServices, nInst, inst, sessions, usedNames, req,
                  clientState, connectedClients, pendingLogs, received, expected, stopped,
                  returned, now, lastRead >>

\* Array.prototype.sort with (a, b) => b.timestamp - a.timestamp: a stable
\* sort, newest first; entries of one timestamp keep their order
RECURSIVE InsertDesc(_, _)
InsertDesc(e, sorted) ==
  IF sorted = << >> THEN << e >>
  ELSE IF Head(sorted).timestamp >= e.timestamp
         THEN << Head(sorted) >> \o InsertDesc(e, Tail(sorted))
         ELSE << e >> \o sorted

RECURSIVE SortDesc(_)
SortDesc(entries) ==
  IF entries = << >> THEN << >>
  ELSE InsertDesc(entries[Len(entries)], SortDesc(SubSeq(entries, 1, Len(entries) - 1)))

Reverse(q) == [k \in 1..Len(q) |-> q[Len(q) + 1 - k]]

Min(a, b) == IF a <= b THEN a ELSE b

\* MemStorage.getLogEntries(limit)
getLogEntries(store, limit) ==
  Reverse(SubSeq(SortDesc(store), 1, Min(limit, Len(store))))

\* GET /api/logs?limit=...
GetLogEntries(limit) ==
  /\ lastRead' = [limit |-> limit, entries |-> getLogEntries(logs, limit)]
  /\ lastAct' = Act("GetLogEntries", 0, 0, "")
  /\ lastEmit' = << >>
  /\ UNCHANGED << botConfigs, botServices, nInst, inst, sessions, usedNames, req,
                  clientState, connectedClients, pendingLogs, received, expected, stopped,
                  returned, logs, currentLogId, now >>

\* DELETE /api/logs: MemStorage.clearLogEntries()
ClearLogEntries ==
  /\ logs' = << >>
  /\ currentLogId' = 1
  /\ lastAct' = Act("ClearLogEntries", 0, 0, "Logs cleared")
  /\ lastEmit' = << >>
  /\ UNCHANGED << botConfigs, botServices, nInst, inst, sessions, usedNames, req,
                  clientState, connectedClients, pendingLogs, received, expected, stopped,
                  returned, now, lastRead >>

InitLogs == InitWith({NoConfig}, {{}})

NextLogs ==
  \/ Tick
  \/ CreateLogEntry
  \/ \E limit \in 1..MaxLogs + 1 : GetLogEntries(limit)
  \/ ClearLogEntries

SpecLogs == InitLogs /\ [][NextLogs]_vars

\* The name generator on its own: calls of generateRandomUsername() and
\* releaseUsername() from any in-use set.
Allocate ==
  /\ Len(returned) < MaxAlloc
  /\ \E name \in generateRandomUsername(usedNames) :
       /\ usedNames' = usedNames \cup {name}
       /\ returned' = Append(returned, name)
  /\ lastAct' = Act("Allocate", 0, 0, "")
  /\ lastEmit' = << >>
  /\ UNCHANGED << botConfigs, botServices, nInst, inst, sessions, req,
                  clientState, connectedClients, pendingLogs, received, expected, stopped, logVars >>

Release ==
  /\ \E name \in usedNames :
       usedNames' = releaseUsername(usedNames, name)
  /\ returned' = << >>
  /\ lastAct' = Act("Release", 0, 0, "")
  /\ lastEmit' = << >>
  /\ UNCHANGED << botConfigs, botServices, nInst, inst, sessions, req,
                  clientState, connectedClients, pendingLogs, received, expected, stopped, logVars >>

InitNames == InitWith({NoConfig}, SUBSET Names)

NextNames == Allocate \/ Release

SpecNames == InitNames /\ [][NextNames]_vars

(***************************************************************************)
(* Properties.                                                             *)
(***************************************************************************)
DiscOps == {"SessError", "SessKicked", "SessEnd"}
TimerOps == {"ReconnectTimer", "WanderTick", "ForwardTimer", "WanderTimer", "ChatTick"}

\* the step just taken ran handleDisconnection() on instance i
Disconnected(i) == lastAct.op \in DiscOps /\ lastAct.inst = i

\* instance i has a reconnect timeout pending
ReconnectPending(i) == inst[i].reconnectTimeout = "pending" \/ inst[i].lostReconnect > 0

IsExhaustion(ev) == ev.type = "log" /\ ev.level = "error" /\ ev.message = ExhaustedMessage
IsAttempt(ev) == ev.type = "log" /\ ev.level = "info" /\ ev.message \in
                   { AttemptMessage(n, m) : n \in 0..MaxAttempts + 2, m \in 0..MaxAttempts + 2 }
IsPolicyLog(ev) == IsExhaustion(ev) \/ IsAttempt(ev)

\* the sessions of id that are open: created, and neither failed, ended nor closed
LiveSessions(id) ==
  { s \in 1..Len(sessions) : Live(sessions[s]) /\ inst[sessions[s].inst].botId = id }

\* C1: at most one live Session exists for a configId at any instant,
\* counting the Sessions of every Bot Instance ever created for that id.
C1_OneLiveSession == \A id \in ReqIds : Cardinality(LiveSessions(id)) <= 1

\* C2: after stop() on a Bot Instance has completed, no reconnect, wander
\* or chat timer of that instance (the 2 s and 8 s timeouts of a wander
\* included) emits an event any more.
C2_NoTimerEventAfterStop ==
  ~(lastAct.op \in TimerOps /\ lastAct.inst \in stopped /\ lastEmit # << >>)

\* the instance registered for id has opened a Session that has not spawned
Connecting(id) ==
  /\ botServices[id] # 0
  /\ inst[botServices[id]].bot # 0
  /\ sessions[inst[botServices[id]].bot].phase \in {"connecting", "loggedin"}

\* C3: a start(id) whose check runs while the instance registered for id is
\* still Connecting is rejected with 'Bot is already running': it registers
\* no instance and creates no Session, also when it overlaps another start.
C3_SecondStartRejected ==
  [][\A r \in Req :
       (/\ req[r].kind = "start" /\ req[r].pc = "getBotConfig"
        /\ req'[r].pc # "getBotConfig"
        /\ Connecting(req[r].id))
       => (/\ lastAct'.resp = "Bot is already running"
           /\ botServices' = botServices
           /\ nInst' = nInst
           /\ sessions' = sessions)]_vars

C3_Witness ==
  /\ lastAct.op = "StartCheck" /\ lastAct.resp = "Bot is already running"
  /\ Connecting(1)
  /\ \E r \in Req : req[r].kind = "start" /\ req[r].pc = "awaitStart"

\* C4: between stop() calls and exhaustion the reconnect-attempt counter
\* goes back to 0 only when the session spawns, so that a session which is
\* disconnected before it spawned leaves the counter at its incremented
\* value.
C4_ResetOnlyOnSpawn ==
  [][\A i \in Inst :
       (inst[i].reconnectAttempts # 0 /\ inst'[i].reconnectAttempts = 0)
       => (/\ lastAct'.inst = i
           /\ \/ lastAct'.op \in {"SessSpawn", "StopRequest"}
              \/ lastAct'.op \in DiscOps /\ \E k \in 1..Len(lastEmit') : IsExhaustion(lastEmit'[k]))]_vars

\* C5: with autoReconnect enabled, a disconnect that finds the counter equal
\* to maxReconnectAttempts schedules no reconnect timer, emits exactly one
\* error-level exhaustion log, resets the counter to 0 and leaves the
\* instance without a Session handle and without a pending reconnect timer.
C5_Exhaustion ==
  [][\A i \in 1..nInst :
       (/\ lastAct'.op \in DiscOps /\ lastAct'.inst = i
        /\ inst[i].config.autoReconnect
        /\ inst[i].reconnectAttempts = inst[i].config.maxReconnectAttempts)
       => (/\ inst'[i].reconnectTimeout # "pending"
           /\ inst'[i].lostReconnect = 0
           /\ Len(SelectSeq(lastEmit', IsExhaustion)) = 1
           /\ SelectSeq(lastEmit', IsAttempt) = << >>
           /\ inst'[i].reconnectAttempts = 0
           /\ inst'[i].bot = 0)]_vars

C5_Witness ==
  \E i \in 1..nInst :
    /\ Disconnected(i)
    /\ inst[i].config.autoReconnect /\ inst[i].config.maxReconnectAttempts = 2
    /\ Len(SelectSeq(lastEmit, IsExhaustion)) = 1
    /\ inst[i].bot = 0 /\ ~ReconnectPending(i) /\ inst[i].reconnectAttempts = 0

\* the connection attempts of instance i that have failed
FailedAttempts(i) ==
  Cardinality({ s \in 1..Len(sessions) : sessions[s].inst = i /\ ~Live(sessions[s]) })

\* C6 as stated: with maxReconnectAttempts = 2, the second connection
\* attempt that fails in a row ends the run: the exhaustion log is
\* emitted and the instance is Idle, with no reconnect timer pending.
C6_TwoFailuresExhaust ==
  \A i \in 1..nInst :
    (i \notin stopped /\ Disconnected(i) /\ FailedAttempts(i) = 2)
    => (/\ Len(SelectSeq(lastEmit, IsExhaustion)) = 1
        /\ inst[i].bot = 0 /\ ~ReconnectPending(i))

\* C6, amended: with autoReconnect = true and maxReconnectAttempts = 2, a
\* run in which three connection attempts fail in a row (the initial one
\* and the two reconnects) produces the info-level log 'Attempt 1/2' at the
\* first failure, 'Attempt 2/2' at the second, each with a reconnect timer
\* scheduled, and the one error-level exhaustion log at the third, which
\* leaves the instance Idle with no Session and no reconnect timer pending;
\* no other step emits a reconnect-attempt or exhaustion log.
C6_ThreeFailuresExhaust ==
  /\ \A i \in 1..nInst :
       (i \notin stopped /\ Disconnected(i))
       => LET f == FailedAttempts(i)
              max == 2
              said == SelectSeq(lastEmit, IsPolicyLog)
          IN  /\ f \in 1..max + 1
              /\ f <= max => /\ said = << LogEv(i, "info", IF f = 1 THEN "Attempt 1/2"
                                                                ELSE "Attempt 2/2") >>
                             /\ inst[i].reconnectTimeout = "pending"
                             /\ inst[i].reconnectAttempts = f
              /\ f = max + 1 => /\ said = << LogEv(i, "error", ExhaustedMessage) >>
                                /\ inst[i].bot = 0 /\ ~ReconnectPending(i)
                                /\ inst[i].reconnectAttempts = 0
  /\ lastAct.op \notin DiscOps => SelectSeq(lastEmit, IsPolicyLog) = << >>

C6_Witness ==
  \E i \in 1..nInst :
    /\ i \notin stopped /\ Disconnected(i) /\ FailedAttempts(i) = 3
    /\ SelectSeq(lastEmit, IsPolicyLog) = << LogEv(i, "error", ExhaustedMessage) >>
    /\ inst[i].bot = 0 /\ ~ReconnectPending(i)

\* C7: a disconnect that finds autoReconnect false schedules no reconnect
\* timer, and an instance with no Session and no pending reconnect timer
\* never opens a Session again (a new start command makes a new instance).
C7_NoReconnectWhenDisabled ==
  [][\A i \in 1..nInst :
       /\ (lastAct'.op \in DiscOps /\ lastAct'.inst = i /\ ~inst[i].config.autoReconnect)
          => (/\ inst'[i].reconnectTimeout # "pending"
              /\ inst'[i].lostReconnect = 0
              /\ inst'[i].bot = 0)
       /\ (inst[i].bot = 0 /\ ~ReconnectPending(i))
          => (/\ inst'[i].bot = 0
              /\ inst'[i].reconnectTimeout # "pending"
              /\ inst'[i].lostReconnect = 0)]_vars

C7_Witness ==
  \E i \in 1..nInst :
    /\ Disconnected(i)
    /\ ~inst[i].config.autoReconnect /\ inst[i].config.maxReconnectAttempts > 0
    /\ inst[i].bot = 0 /\ ~ReconnectPending(i)

\* C8: every Session a Bot Instance opens uses the effective username of
\* its first Session, also with useRandomNames.
C8_SameUsername ==
  \A s, t \in 1..Len(sessions) :
    sessions[s].inst = sessions[t].inst => sessions[s].username = sessions[t].username

\* C9: the names returned by calls of generateRandomUsername() with no
\* release in between are pairwise distinct and have at most 16 characters.
C9_DistinctNames ==
  /\ \A a, b \in 1..Len(returned) : a # b => returned[a] # returned[b]
  /\ \A a \in 1..Len(returned) : Len(returned[a]) <= maxNameLength

\* C10: every event of an instance reaches every subscriber that was
\* connected when it was emitted, in the order of emission: what a client
\* is sent is always the next event it is due, and once no log listener is
\* waiting any more the client has been sent every event it was due.
C10_InOrderDelivery ==
  \A c \in Client :
    /\ received[c] = << >>
    /\ (Open(c) /\ pendingLogs = << >>) => expected[c] = << >>

\* the number of times m occurs in the sequence q
Count(m, q) == Cardinality({ k \in 1..Len(q) : q[k] = m })

\* C11: a subscriber that joins after an instance emitted an event is never
\* sent that event, a log event included: whatever a client has been sent
\* is an event that was emitted while the client was connected.
C11_NoRetroactiveDelivery ==
  \A c \in Client :
    \A k \in 1..Len(received[c]) :
      Count(received[c][k], received[c]) <= Count(received[c][k], expected[c])

C11_Witness ==
  \E c \in Client :
    /\ lastAct.op = "ClientGreeted" /\ clientState[c] = "open"
    /\ \E s \in 1..Len(sessions) : sessions[s].phase = "loggedin"
    /\ received[c] = << >> /\ expected[c] = << >> /\ pendingLogs = << >>

\* C12: stop(id) for an id with no registered instance reports success, not
\* an error.
C12_StopUnregisteredSucceeds ==
  (lastAct.op = "StopRequest" /\ lastAct.inst = 0) => httpStatus(lastAct.resp) = 200

\* C14: start(id) for an id nothing is stored under, 0 and a non-numeric
\* id included, registers no instance under that id and opens no Session.
C14_UnknownIdRejected ==
  \A id \in Ids \ StoredIds :
    /\ botServices[id] = 0
    /\ \A s \in 1..Len(sessions) : inst[sessions[s].inst].botId # id

C15_StopReleasesAll ==
  (lastAct.op = "StopRequest" /\ lastAct.inst # 0) =>
    LET b == inst[lastAct.inst]
    IN  /\ b.bot = 0
        /\ b.reconnectTimeout = "null" /\ b.wanderInterval = "null" /\ b.chatInterval = "null"
        /\ b.reconnectAttempts = 0 /\ b.startTime = 0 /\ ~b.isWandering
        /\ \A s \in 1..Len(sessions) :
             (sessions[s].inst = lastAct.inst /\ b.config.useRandomNames)
               => sessions[s].username \notin usedNames

\* Instance i is Idle: no Session, no reconnect timer
Idle(i) == inst[i].bot = 0 /\ ~ReconnectPending(i)

\* C16: stop() on an Idle instance changes no field of the instance and no
\* entry of the in-use name set, and it emits a warn-level log, no
\* error-level log and no error event.
C16_StopIdempotent ==
  [][\A i \in 1..nInst :
       (Idle(i) /\ lastAct'.op = "StopRequest" /\ lastAct'.inst = i /\ lastAct' # lastAct)
         => /\ inst'[i] = inst[i]
            /\ usedNames' = usedNames
            /\ \E k \in 1..Len(lastEmit') :
                 lastEmit'[k].type = "log" /\ lastEmit'[k].level = "warn"
            /\ \A k \in 1..Len(lastEmit') :
                 /\ lastEmit'[k].type # "error"
                 /\ lastEmit'[k].type = "log" => lastEmit'[k].level # "error"]_vars

ShutdownWarning(i) == LogEv(i, "warn", "Error during bot shutdown")

\* C17: when quit() throws during stop(), the error is logged at warn level
\* and swallowed: the same stop() clears the Session handle, releases the
\* allocated username, resets the counters, emits last a status_update with
\* connected = false, emits no error, and returns to the route handler.
C17_QuitErrorSwallowed ==
  [][\A i \in 1..nInst :
       (/\ lastAct'.op = "StopRequest" /\ lastAct'.inst = i /\ lastAct' # lastAct
        /\ \E k \in 1..Len(lastEmit') : lastEmit'[k] = ShutdownWarning(i))
         => /\ inst'[i].bot = 0
            /\ inst[i].config.useRandomNames => inst[i].actualUsername \notin usedNames'
            /\ inst'[i].reconnectAttempts = 0 /\ inst'[i].startTime = 0
            /\ inst'[i].actualUsername = ""
            /\ lastEmit'[Len(lastEmit')].type = "status_update"
            /\ lastEmit'[Len(lastEmit')].inst = i
            /\ ~lastEmit'[Len(lastEmit')].status.connected
            /\ \A k \in 1..Len(lastEmit') :
                 /\ lastEmit'[k].type # "error"
                 /\ lastEmit'[k].type = "log" => lastEmit'[k].level # "error"
            /\ req'[lastAct'.req].kind = "stop" /\ req'[lastAct'.req].pc = "awaitStop"]_vars

\* stop() has run on a spawned session whose quit() threw
C17_Witness ==
  /\ lastAct.op = "StopRequest" /\ lastAct.inst # 0
  /\ \E k \in 1..Len(lastEmit) : lastEmit[k] = ShutdownWarning(lastAct.inst)
  /\ inst[lastAct.inst].bot = 0
  /\ \E s \in 1..Len(sessions) :
       sessions[s].inst = lastAct.inst /\ sessions[s].phase = "spawned"

\* C18: the step that handles an ended, kicked or error event of a Session
\* cancels the wander and chat timers of the instance and clears its Session
\* handle: right after it the instance has neither interval.
C18_DisconnectCancelsBehaviours ==
  \A i \in 1..nInst :
    Disconnected(i) =>
      /\ inst[i].bot = 0
      /\ inst[i].wanderInterval = "null" /\ inst[i].lostWander = 0
      /\ inst[i].chatInterval = "null" /\ inst[i].lostChat = 0

\* C19: an instance has at most one running wander interval and at most one
\* running chat interval, those no field refers to any more included.
C19_OneTimerEach ==
  \A i \in 1..nInst :
    /\ (IF inst[i].wanderInterval = "running" THEN 1 ELSE 0) + inst[i].lostWander <= 1
    /\ (IF inst[i].chatInterval = "running" THEN 1 ELSE 0) + inst[i].lostChat <= 1

\* C20: getStatus() is a pure read: a status request changes no field of
\* any instance, no session, no entry of the in-use name set and no registry
\* entry, and no event is emitted (so no log is queued, no client is sent
\* anything).
C20_GetStatusPure ==
  [][lastAct'.op = "GetStatus"
       => /\ inst' = inst /\ sessions' = sessions /\ usedNames' = usedNames
          /\ botServices' = botServices /\ nInst' = nInst
          /\ lastEmit' = << >> /\ pendingLogs' = pendingLogs
          /\ received' = received /\ expected' = expected]_vars

\* the status of an instance with a spawned Session and a running interval
\* has been read
C20_Witness ==
  /\ lastAct.op = "GetStatus" /\ lastAct.inst # 0 /\ lastAct.resp = "connected"
  /\ inst[lastAct.inst].bot # 0
  /\ sessions[inst[lastAct.inst].bot].phase = "spawned"
  /\ inst[lastAct.inst].wanderInterval = "running"
  /\ inst[lastAct.inst].actualUsername \in usedNames

\* the kinds and levels of a sequence of events
Kinds(out) ==
  [ k \in 1..Len(out) |->
      [ type |-> out[k].type,
        level |-> IF out[k].type = "log" THEN out[k].level ELSE "" ] ]

\* C21: the code of a Session error affects only the text of the error
\* log: in every state, the error handler run with any two codes on the
\* same Session leaves the same instances, sessions and name set, and emits
\* the same sequence of event kinds and levels.
C21_CodeAffectsOnlyText ==
  \A s \in 1..Len(sessions) :
    (Live(sessions[s]) /\ sessions[s].listeners) =>
      \A c1, c2 \in ErrorCodes :
        LET i == sessions[s].inst
            w0 == [World EXCEPT !.sessions[s].phase = "failed", !.out = << >>]
            w1 == onError(w0, i, c1)
            w2 == onError(w0, i, c2)
        IN  /\ w1.inst = w2.inst
            /\ w1.sessions = w2.sessions
            /\ w1.usedNames = w2.usedNames
            /\ Kinds(w1.out) = Kinds(w2.out)

\* an error with the code ETIMEDOUT has been handled and a reconnect is
\* scheduled, while another Session is open that can fail
C21_Witness ==
  /\ lastAct.op = "SessError" /\ lastAct.inst # 0
  /\ \E k \in 1..Len(lastEmit) :
       lastEmit[k] = LogEv(lastAct.inst, "error", ErrorMessage("ETIMEDOUT"))
  /\ inst[lastAct.inst].reconnectTimeout = "pending"
  /\ inst[lastAct.inst].reconnectAttempts = 1

IsErrorLog(ev) == ev.type = "log" /\ ev.level = "error"

\* the events of a step hold an error-level log directly followed by an
\* error event
ErrorReported(out) ==
  \E k \in 1..Len(out) - 1 : IsErrorLog(out[k]) /\ out[k + 1].type = "error"

\* C22: a connection failure is no failure of start().  A start() in which
\* createBot() threw, from the route or from the reconnect timer, reports an
\* error-level log and an error event, leaves the instance without Session,
\* and the route handler goes on to its normal response; a Session that
\* fails later reports the same two events and is handled by
\* handleDisconnection (status with connected = false, and a reconnect
\* scheduled if the policy allows one).
C22_StartNeverFails ==
  [][/\ (lastAct'.op = "StartCheck" /\ lastAct'.resp = "" /\ lastAct' # lastAct)
          => /\ req'[lastAct'.req].kind = "start" /\ req'[lastAct'.req].pc = "awaitStart"
             /\ inst'[lastAct'.inst].bot = 0 <=> ErrorReported(lastEmit')
             /\ inst'[lastAct'.inst].bot = 0 => Len(sessions') = Len(sessions)
     /\ (lastAct'.op = "ReconnectTimer" /\ inst[lastAct'.inst].bot = 0
           /\ Len(sessions') = Len(sessions))
          => ErrorReported(lastEmit') /\ inst'[lastAct'.inst].bot = 0
     /\ (lastAct'.op = "RouteRespond" /\ req[lastAct'.req].kind = "start")
          => httpStatus(lastAct'.resp) = 200
     /\ (lastAct'.op = "SessError" /\ lastAct'.inst # 0 /\ Len(lastEmit') > 0)
          => /\ ErrorReported(lastEmit')
             /\ \E k \in 1..Len(lastEmit') :
                  /\ lastEmit'[k].type = "status_update"
                  /\ ~lastEmit'[k].status.connected
             /\ inst'[lastAct'.inst].bot = 0
             /\ mayReconnect(inst[lastAct'.inst])
                  => inst'[lastAct'.inst].reconnectTimeout = "pending"]_vars

\* the start request whose createBot() threw is answered "Bot start
\* initiated": its instance has no Session and is registered
C22_Witness ==
  /\ lastAct.op = "RouteRespond" /\ lastAct.resp = "Bot start initiated"
  /\ \E id \in ReqIds :
       /\ botServices[id] # 0
       /\ inst[botServices[id]].bot = 0
       /\ \A s \in 1..Len(sessions) : sessions[s].inst # botServices[id]

\* instance i has settled after a failed run: it had a Session, has none
\* now, no reconnect is pending and its attempt counter is reset.  With
\* autoReconnect this is the state the exhaustion branch leaves.
Settled(i) ==
  /\ inst[i].bot = 0 /\ ~ReconnectPending(i) /\ inst[i].reconnectAttempts = 0
  /\ i \notin stopped
  /\ \E s \in 1..Len(sessions) : sessions[s].inst = i

\* C23: exhaustion is surfaced as a log only: handleDisconnection emits
\* the status and then the exhaustion log, nothing after it, and leaves
\* the instance settled.  A start request for the id of a settled instance
\* is accepted, not rejected as already running, and opens exactly one new
\* Session (none if createBot() threw, which is reported as an error).
C23_RestartAfterExhaustion ==
  [][/\ \A i \in 1..nInst :
          (/\ lastAct'.inst = i /\ lastAct' # lastAct
           /\ \E k \in 1..Len(lastEmit') : IsExhaustion(lastEmit'[k]))
            => /\ lastAct'.op \in DiscOps
               /\ IsExhaustion(lastEmit'[Len(lastEmit')])
               /\ lastEmit'[Len(lastEmit') - 1].type = "status_update"
               /\ \A k \in 1..Len(lastEmit') - 1 : ~IsExhaustion(lastEmit'[k])
               /\ inst'[i].bot = 0 /\ inst'[i].reconnectAttempts = 0
               /\ inst'[i].reconnectTimeout # "pending"
     /\ \A r \in Req :
          (/\ lastAct'.op = "StartCheck" /\ lastAct'.req = r /\ lastAct' # lastAct
           /\ req[r].pc = "getBotConfig" /\ req[r].found
           /\ botServices[req[r].id] # 0 /\ Settled(botServices[req[r].id]))
            => /\ lastAct'.resp = ""
               /\ req'[r].pc = "awaitStart"
               /\ botServices'[req[r].id] = lastAct'.inst
               /\ \/ /\ Len(sessions') = Len(sessions) + 1
                     /\ inst'[lastAct'.inst].bot = Len(sessions')
                     /\ Live(sessions'[Len(sessions')])
                  \/ /\ sessions' = sessions
                     /\ ErrorReported(lastEmit')]_vars

\* a start request was accepted for the id of an instance that had
\* exhausted its reconnect attempts, and a new Session is open
C23_Witness ==
  /\ lastAct.op = "StartCheck" /\ lastAct.resp = "" /\ lastAct.inst >= 2
  /\ Settled(lastAct.inst - 1) /\ inst[lastAct.inst - 1].config.autoReconnect
  /\ inst[lastAct.inst].bot = Len(sessions)
  /\ inst[lastAct.inst].bot # 0

\* the values of its configuration an instance works with
Used(config) ==
  [ username |-> config.username,
    autoReconnect |-> config.autoReconnect,
    reconnectInterval |-> config.reconnectInterval,
    maxReconnectAttempts |-> config.maxReconnectAttempts,
    wanderEnabled |-> config.wanderEnabled,
    chatEnabled |-> config.chatEnabled,
    useRandomNames |-> config.useRandomNames ]

\* C24: an instance works with the configuration it was started with: no
\* step, an update of the stored configuration included, changes a value
\* an existing instance uses.
C24_ConfigSnapshot ==
  [][\A i \in 1..nInst : Used(inst'[i].config) = Used(inst[i].config)]_vars

\* C25: once stop() has run on an instance, its reconnect timer is
\* cancelled: the instance has no reconnect timer pending, its reconnect
\* timer does not fire, and it holds no Session, whichever of stop() and
\* the firing of the timer came first.
C25_StopCancelsReconnect ==
  \A i \in stopped :
    /\ inst[i].bot = 0
    /\ ~ReconnectPending(i)
    /\ ~(lastAct.op = "ReconnectTimer" /\ lastAct.inst = i)
    /\ \A s \in 1..Len(sessions) : sessions[s].inst = i => ~Live(sessions[s])

\* stop() has run on an instance whose only Session had failed and whose
\* reconnect had not fired yet
C25_Witness ==
  /\ lastAct.op = "StopRequest" /\ lastAct.inst \in stopped
  /\ inst[lastAct.inst].config.autoReconnect
  /\ inst[lastAct.inst].config.maxReconnectAttempts > 0
  /\ Cardinality({ s \in 1..Len(sessions) : sessions[s].inst = lastAct.inst }) = 1
  /\ \E s \in 1..Len(sessions) : sessions[s].inst = lastAct.inst /\ sessions[s].phase = "failed"
  /\ Len(lastEmit) = 1

\* C26: a failing subscriber does not keep a broadcast from the others:
\* once no log listener is pending, every open client has been sent as many
\* messages as events were emitted while it was open, whatever the state and
\* the position of the other clients.
C26_FailureIsolated ==
  Quiet => \A c \in Client :
             clientState[c] = "open" => Len(received[c]) = Len(expected[c])

\* C27: getLogEntries(limit) returns the last min(limit, n) of the n
\* stored entries, in the order createLogEntry was called, also when
\* entries carry the same timestamp.
C27_LastEntriesInOrder ==
  lastAct.op = "GetLogEntries" =>
    lastRead.entries =
      SubSeq(logs, Len(logs) - Min(lastRead.limit, Len(logs)) + 1, Len(logs))

\* instance i runs start() in this step and opens a Session
Starts(i) ==
  /\ lastAct'.op \in {"StartCheck", "ReconnectTimer"} /\ lastAct'.inst = i
  /\ Len(sessions') = Len(sessions) + 1
  /\ sessions'[Len(sessions')].inst = i

\* instance i, which holds a Session, runs stop() in this step
Stops(i) ==
  /\ lastAct'.op = "StopRequest" /\ lastAct'.inst = i /\ lastAct' # lastAct
  /\ i <= nInst /\ inst[i].bot # 0

\* C28: with useRandomNames, start() adds one name to the in-use set, a
\* name that was not in it, and the stop() that follows removes that name
\* and no other, so that the set is what it was before start() and the name
\* can be allocated again.
C28_StartStopRestoresNames ==
  [][\A i \in Inst :
       /\ (Starts(i) /\ inst'[i].config.useRandomNames)
            => /\ inst'[i].actualUsername \notin usedNames
               /\ usedNames' = usedNames \cup {inst'[i].actualUsername}
       /\ (Stops(i) /\ inst[i].config.useRandomNames)
            => /\ usedNames' = usedNames \ {inst[i].actualUsername}
               /\ inst[i].actualUsername \in usedNames
               /\ inst[i].actualUsername \in generateRandomUsername(usedNames')]_vars

\* C29: the start time of an instance is recorded by the start() of the
\* start request only: the start() the reconnect timer runs leaves it as it
\* was, so a reconnect does not restart the uptime.
C29_ReconnectKeepsStartTime ==
  [][\A i \in 1..nInst :
       (lastAct'.op = "ReconnectTimer" /\ lastAct'.inst = i /\ lastAct' # lastAct)
         => /\ inst'[i].startTime = inst[i].startTime
            /\ getStatus([World EXCEPT !.inst = inst'], i).uptimeSince
                 = getStatus(World, i).uptimeSince]_vars

(***************************************************************************)
(* The behaviour flags are rewritten by PUT /api/config while the          *)
(* intervals startAIBehaviors() created keep firing.                       *)
(***************************************************************************)
InitFlags == InitWith(Configs({FALSE}, {1}, {TRUE}, {TRUE}, {FALSE}), {{}})

NextFlags ==
  \/ LogPersisted
  \/ \E id \in ReqIds : Quiet /\ StartRequest(1, id)
  \/ Quiet /\ StartCheck(1, FALSE) /\ Len(sessions') <= MaxWatched
  \/ Quiet /\ StartUpdateStatus(1)
  \/ Quiet /\ RouteGetAll(1)
  \/ Quiet /\ RouteRespond(1)
  \/ \E body \in Configs({FALSE}, {1}, BOOLEAN, BOOLEAN, {FALSE}) :
       Quiet /\ UpdateConfig(1, body)
  \/ \E s \in 1..MaxSess : Quiet /\ SessLogin(s)
  \/ \E s \in 1..MaxSess : Quiet /\ SessSpawn(s)
  \/ \E s \in 1..MaxSess : Quiet /\ SessEnd(s)
  \/ \E i \in Inst : Quiet /\ WanderTick(i)
  \/ \E i \in Inst : Quiet /\ ForwardTimer(i)
  \/ \E i \in Inst : Quiet /\ WanderTimer(i)
  \/ \E i \in Inst : Quiet /\ ChatTick(i)

SpecFlags == InitFlags /\ [][NextFlags]_vars

\* C30: a firing of the wander or of the chat interval acts only if, at that
\* moment, the flag of the behaviour is set in the configuration of the
\* instance and the instance holds a session: otherwise the firing changes
\* no field of the instance, nothing of a session, and emits no event.
C30_TickNeedsFlagAndSession ==
  [][\A i \in 1..nInst :
       /\ (/\ lastAct'.op = "WanderTick" /\ lastAct'.inst = i
           /\ ~(inst[i].config.wanderEnabled /\ inst[i].bot # 0))
            => (inst' = inst /\ sessions' = sessions /\ lastEmit' = << >>)
       /\ (/\ lastAct'.op = "ChatTick" /\ lastAct'.inst = i
           /\ ~(inst[i].config.chatEnabled /\ inst[i].bot # 0))
            => (inst' = inst /\ sessions' = sessions /\ lastEmit' = << >>)]_vars

\* C31: the error-level exhaustion log is emitted only by a disconnect of
\* an instance whose autoReconnect is set and whose attempt counter has
\* reached maxReconnectAttempts: a disconnect of an instance with
\* autoReconnect not set emits none, whatever maxReconnectAttempts is.
C31_ExhaustionNeedsAutoReconnect ==
  [][\A i \in 1..nInst :
       (/\ lastAct'.inst = i
        /\ \E k \in 1..Len(lastEmit') : IsExhaustion(lastEmit'[k]))
       => /\ lastAct'.op \in DiscOps
          /\ inst[i].config.autoReconnect
          /\ inst[i].reconnectAttempts >= inst[i].config.maxReconnectAttempts]_vars

\* the run of instance i has just ended without a stop command: the
\* disconnect handled last left it with no session and no reconnect timer
RunEnded(i) ==
  /\ Disconnected(i) /\ i \notin stopped
  /\ inst[i].bot = 0 /\ ~ReconnectPending(i)

\* C32: when a run ends without a stop command (a disconnect with the
\* reconnection disabled, or the exhaustion), the instance is torn down at
\* that moment: no wander or chat interval is running, the name it
\* allocated is released from the in-use set, and the instance is no longer
\* the one registered under its id.
C32_RunEndTearsDown ==
  \A i \in 1..nInst :
    RunEnded(i) =>
      /\ inst[i].wanderInterval # "running" /\ inst[i].lostWander = 0
      /\ inst[i].chatInterval # "running" /\ inst[i].lostChat = 0
      /\ inst[i].actualUsername \notin usedNames
      /\ botServices[inst[i].botId] # i

\* C33: one failure of one session is handled once.  A disconnect step
\* handles the session the instance holds, whose listeners are removed by
\* it and never come back, so that a later terminating event of the same
\* session (ended after error, ended after kicked) runs no handler; the
\* step raises the attempt counter by at most 1, and an instance never has
\* more than one reconnect timer pending.
C33_OneFailureHandledOnce ==
  [][/\ \A i \in 1..nInst :
          (lastAct'.op \in DiscOps /\ lastAct'.inst = i)
          => /\ inst[i].bot # 0
             /\ sessions[inst[i].bot].listeners
             /\ sessions'[inst[i].bot].phase # sessions[inst[i].bot].phase
             /\ ~sessions'[inst[i].bot].listeners
             /\ inst'[i].reconnectAttempts <= inst[i].reconnectAttempts + 1
     /\ \A s \in 1..Len(sessions) : ~sessions[s].listeners => ~sessions'[s].listeners
     /\ \A i \in 1..nInst : inst'[i].lostReconnect = 0]_vars

\* a session that failed with its handler run, then ended, while the one
\* reconnect timer of its instance is pending
C33_Witness ==
  \E s \in 1..Len(sessions) :
    /\ lastAct.op = "SessEnd" /\ lastAct.inst = 0
    /\ sessions[s].phase = "closed" /\ ~sessions[s].listeners
    /\ inst[sessions[s].inst].reconnectTimeout = "pending"
    /\ inst[sessions[s].inst].reconnectAttempts = 1
    /\ sessions[s].inst \notin stopped

\* C34: no running instance is unreachable from the registry: every
\* instance that holds a session or has a reconnect timer pending is the
\* instance registered under its id, so that a stop request for the id
\* reaches it.
C34_RunningIsRegistered ==
  \A i \in 1..nInst :
    (inst[i].bot # 0 \/ ReconnectPending(i)) => botServices[inst[i].botId] = i

\* C35: the in-use set never leaks: every name in it is the current
\* effective username of an instance that has not been stopped, so that
\* the set is empty once every instance has been stopped.
C35_NoNameLeak ==
  \A n \in usedNames :
    \E i \in 1..nInst : inst[i].actualUsername = n /\ i \notin stopped

\* C36: in every status snapshot of an instance, the one getStatus() would
\* return now and the ones the last step emitted, wandering = true implies
\* connected = true.
C36_WanderingImpliesConnected ==
  /\ \A i \in 1..nInst :
       getStatus(World, i).wandering => getStatus(World, i).connected
  /\ \A k \in 1..Len(lastEmit) :
       lastEmit[k].type = "status_update"
         => (lastEmit[k].status.wandering => lastEmit[k].status.connected)

InitLoop == InitWith(Configs({TRUE}, {1}, {FALSE}, {FALSE}, {FALSE}), {{}})

NextLoop ==
  \/ LogPersisted
  \/ \E id \in ReqIds : Quiet /\ StartRequest(1, id)
  \/ Quiet /\ StartCheck(1, FALSE) /\ nInst' <= 1
  \/ Quiet /\ StartUpdateStatus(1)
  \/ Quiet /\ RouteGetAll(1)
  \/ Quiet /\ RouteRespond(1)
  \/ \E s \in 1..MaxSess : Quiet /\ SessLogin(s)
  \/ \E s \in 1..MaxSess : Quiet /\ SessError(s, "ECONNRESET")
  \/ \E s \in 1..MaxSess : Quiet /\ SessKicked(s)
  \/ \E s \in 1..MaxSess : Quiet /\ SessEnd(s)
  \/ \E i \in Inst : Quiet /\ ReconnectTimer(i, FALSE)

SpecLoop == InitLoop /\ [][NextLoop]_vars

\* the sessions instance i has opened: the first one and one per reconnect
Opened(i) == Cardinality({ s \in 1..Len(sessions) : sessions[s].inst = i })

\* C38: the reconnect loop is bounded.  With autoReconnect set and
\* maxReconnectAttempts = M, in a run where no session spawns, the instance
\* reconnects at most M times: it opens at most M + 1 sessions, and once
\* the last of them has failed it is Idle, with no reconnect timer pending.
C38_LoopBounded ==
  \A i \in 1..nInst :
    LET M == inst[i].config.maxReconnectAttempts
    IN  /\ Opened(i) <= M + 1
        /\ (Opened(i) = M + 1 /\ inst[i].bot = 0) => ~ReconnectPending(i)

=============================================================================
